---- MODULE Spec2Model ----
(***************************************************************************)
(* Retrieval, fusion and recommendation pipeline of the travel RAG system. *)
(*                                                                         *)
(*   IntentExtractor   src/unnamed/part_008 (compiled intent-extractor.js) *)
(*   CloudVectorStore  src/src/core/affiliate-engine.ts:389-595            *)
(*   DualRAGSystem     src/src/core/self-learning-rag.ts:293-541           *)
(*   SelfLearningRAG   src/src/core/self-learning-rag.ts:23-279            *)
(*                                                                         *)
(* Conventions.  A JavaScript string that the code inspects character by   *)
(* character (toLowerCase, includes, template concatenation) is a sequence *)
(* of one-character strings; an enum-like string is a TLA+ string.  A      *)
(* number in [0,1] (score, confidence) is an integer count of hundredths;  *)
(* a number obtained by division is an exact fraction [n, d] of            *)
(* hundredths.  An optional property of a JavaScript object is a record    *)
(* field that may be missing from the record's domain.                     *)
(***************************************************************************)
EXTENDS Integers, Sequences, FiniteSets, Bags, TLC

VARIABLES
    system,            \* which class was constructed: "DualRAGSystem" | "SelfLearningRAG"
    index,             \* the vector index: set of stored vectors' metadata records
    pc,                \* position of the request task (its pending await)
    userMessage,       \* request.userMessage
    langMatches,       \* results.matches of the phrase-collection query
    languagePatterns,  \* RAGResult[] returned by queryLanguagePatterns
    aiIntent,          \* value returned by extractWithAI
    intent,            \* TravelIntent returned by extractIntent
    matches,           \* results.matches of the success-pattern query
    successPatterns,   \* RAGResult[] returned by querySuccessPatterns
    response,          \* RAGQueryResponse of DualRAGSystem.query
    outcome,           \* how the query promise settled: "pending" | "response" | "error"
    thrownAt,          \* the call whose exception rejected the query ("none" if none)
    learningEnabled,   \* SelfLearningRAG.learningEnabled
    searchIntent,      \* SelfLearningRAG: value returned by extractSearchIntent
    newVenues,         \* SelfLearningRAG: venues converted from the web results
    finalResponse,     \* what the constructed system's query() resolved with
    venuesIn,          \* deduplicateVenues: the argument
    venuesOut,         \* deduplicateVenues: the returned list
    planArgs,          \* createDayPlan: date, availableActivities, fixedBookings, preferences
    plan,              \* createDayPlan: the returned DayPlan
    isOpenArgs,        \* isOpenAt: activity, time, dayOfWeek
    isOpenResult,      \* isOpenAt: the returned boolean
    matchesBudgetArgs, \* matchesBudget: activity, budget
    matchesBudgetResult, \* matchesBudget: the returned boolean
    cacheMap,          \* VenueValidator.cacheMap: cache key -> ValidationResult
    now,               \* the wall clock (Date.now()), in hours
    calls,             \* the validateVenue calls in progress: their locals and position
    server             \* server.ts: ragSystem, the request handlers in progress, the responses sent

queryVars == <<system, index, pc, userMessage, langMatches, languagePatterns, aiIntent,
               intent, matches, successPatterns, response, outcome, thrownAt,
               learningEnabled, searchIntent, newVenues, finalResponse>>
dedupVars == <<venuesIn, venuesOut>>
schedulerVars == <<planArgs, plan, isOpenArgs, isOpenResult, matchesBudgetArgs,
                   matchesBudgetResult>>
validatorVars == <<cacheMap, now, calls>>
serverVars == <<server>>
vars == <<queryVars, dedupVars, schedulerVars, validatorVars, serverVars>>

-----------------------------------------------------------------------------
(* Bounds of the model *)

MaxVenueList == 3
MaxLearned == 1

-----------------------------------------------------------------------------
(* Strings *)

NoValue == [undefined |-> TRUE]

Has(obj, f) == f \in DOMAIN obj

Min(a, b) == IF a <= b THEN a ELSE b
Max(a, b) == IF a >= b THEN a ELSE b

Range(s) == {s[i] : i \in 1..Len(s)}

LowerChar(c) ==
    CASE c = "A" -> "a"
      [] c = "B" -> "b"
      [] c = "C" -> "c"
      [] c = "F" -> "f"
      [] OTHER -> c

toLowerCase(s) == [i \in 1..Len(s) |-> LowerChar(s[i])]

\* String.prototype.includes: needle occurs as a contiguous substring
includes(hay, needle) ==
    \E i \in 0..(Len(hay) - Len(needle)) :
        \A j \in 1..Len(needle) : hay[i + j] = needle[j]

RECURSIVE join(_, _)
join(arr, sep) ==
    IF arr = <<>> THEN <<>>
    ELSE IF Len(arr) = 1 THEN <<arr[1]>>
    ELSE <<arr[1], sep>> \o join(Tail(arr), sep)

slice(s, from, to) == SubSeq(s, from + 1, Min(to, Len(s)))

-----------------------------------------------------------------------------
(* Venues and deduplication *)

Venue(n, t) == [name |-> n, type |-> t]

VenueNames == { <<"a">>, <<"A">>, <<"a", "_", "b">>, <<"b">> }
VenueTypes == { <<"c">>, <<"b", "_", "c">>, <<"C">> }
VenueUniverse == { Venue(n, t) : n \in VenueNames, t \in VenueTypes }

\* `${venue.name.toLowerCase()}_${venue.type}`
venueKey(venue) == toLowerCase(venue.name) \o <<"_">> \o venue.type

RECURSIVE dedupFrom(_, _)
dedupFrom(venues, seen) ==
    IF venues = <<>> THEN <<>>
    ELSE LET key == venueKey(venues[1]) IN
         IF key \in seen THEN dedupFrom(Tail(venues), seen)
         ELSE <<venues[1]>> \o dedupFrom(Tail(venues), seen \cup {key})

\* variant: the survivors are returned newest first
deduplicateVenuesNewestFirst(venues) ==
    LET kept == dedupFrom(venues, {})
    IN  [k \in 1..Len(kept) |-> kept[Len(kept) + 1 - k]]

deduplicateVenues(venues) == dedupFrom(venues, {})

RECURSIVE SeqsUpTo(_, _)
SeqsUpTo(S, n) ==
    IF n = 0 THEN {<<>>}
    ELSE LET shorter == SeqsUpTo(S, n - 1) IN
         shorter \cup { <<x>> \o s : x \in S, s \in {t \in shorter : Len(t) = n - 1} }

-----------------------------------------------------------------------------
(* JSON stored in index metadata *)

\* JSON.stringify(v): the text that encodes v
JSONstringify(v) == [text |-> v]
\* a metadata string that is not valid JSON (written by another uploader)
MalformedJSON == [malformed |-> TRUE]
\* JSON.parse(j) returns the encoded value, and throws when j is not valid JSON
JSONparses(j) == Has(j, "text")
JSONparse(j) == j.text

-----------------------------------------------------------------------------
(* Numbers: hundredths, and exact fractions of hundredths *)

Frac(n, d) == [n |-> n, d |-> d]
FracGE(a, b) == a.n * b.d >= b.n * a.d
FracLE(a, b) == FracGE(b, a)
FracEq(a, b) == a.n * b.d = b.n * a.d
FracAdd(a, b) == Frac(a.n * b.d + b.n * a.d, a.d * b.d)
FracScale(k, kd, a) == Frac(k * a.n, kd * a.d)
FracMin(a, b) == IF FracLE(a, b) THEN a ELSE b
FracMax(a, b) == IF FracGE(a, b) THEN a ELSE b

RECURSIVE SumConfidence(_)
SumConfidence(patterns) ==
    IF patterns = <<>> THEN 0 ELSE patterns[1].confidence + SumConfidence(Tail(patterns))

\* [...new Set(arr)]: first occurrences, in order
RECURSIVE uniqueFrom(_, _)
uniqueFrom(arr, seen) ==
    IF arr = <<>> THEN <<>>
    ELSE IF arr[1] \in seen THEN uniqueFrom(Tail(arr), seen)
    ELSE <<arr[1]>> \o uniqueFrom(Tail(arr), seen \cup {arr[1]})

newSet(arr) == uniqueFrom(arr, {})

-----------------------------------------------------------------------------
(* Configuration *)

confidenceThreshold == 60      \* CONFIG.rag.confidenceThreshold = 0.6
languageThreshold == 60        \* literal 0.6 in queryLanguagePatterns
topK == 10                     \* CONFIG.rag.topK
languageTopK == 5              \* literal topK of queryLanguagePatterns

\* similarity scores the index may report, in hundredths
Scores == {55, 60, 90}

-----------------------------------------------------------------------------
(* The vector index (Pinecone): stored metadata and similarity query *)

\* index.query: every stored vector whose metadata satisfies all the $eq
\* conditions of the filter, nearest first, at most k of them.  The similarity
\* of a stored vector to the query embedding is decided by the embedding
\* model, so every ranking with non-increasing scores is possible.
MatchesFilter(metadata, filter) ==
    \A f \in DOMAIN filter : Has(metadata, f) /\ metadata[f] = filter[f]

RECURSIVE Rankings(_, _, _)
Rankings(records, maxScore, k) ==
    IF records = {} \/ k = 0 THEN {<<>>}
    ELSE UNION { UNION { { <<[metadata |-> r, score |-> s]>> \o rest :
                             rest \in Rankings(records \ {r}, s, k - 1) } :
                         s \in {x \in Scores : x <= maxScore} } :
                 r \in records }

\* a ranking is complete when it is as long as the index allows
indexQuery(stored, filter, k) ==
    LET hits == {r \in stored : MatchesFilter(r, filter)}
        want == Min(k, Cardinality(hits))
    IN  {m \in Rankings(hits, 100, k) : Len(m) = want}

-----------------------------------------------------------------------------
(* CloudVectorStore *)

\* the optional property f of obj as a one-field record, or the empty record
EmptyRecord == [x \in {} |-> TRUE]
Opt(obj, f) == IF Has(obj, f) THEN [x \in {f} |-> obj[f]] ELSE EmptyRecord

\* metadata written by upsertSuccessPatterns for one pattern
successMetadata(pattern) ==
    [ type |-> "success_pattern",
      vid |-> <<"success">> \o pattern.id,
      destination |-> pattern.destination,
      category |-> pattern.category,
      budgetTier |-> pattern.budgetTier,
      venues |-> JSONstringify(pattern.venues),
      localInsights |-> pattern.metadata.localInsights ]
    @@ Opt(pattern.metadata, "source")

\* metadata written by upsertLanguagePatterns for one pattern
languageMetadata(pattern) ==
    [ type |-> "language_pattern",
      vid |-> <<"language">> \o pattern.id,
      intent |-> pattern.intent,
      confidence |-> pattern.confidence,
      phrases |-> JSONstringify(pattern.phrases),
      mapsTo |-> JSONstringify(pattern.mapsTo) ]

\* index.upsert: a vector with the id of a stored one replaces it
upsert(stored, metadata) == {r \in stored : r.vid # metadata.vid} \cup {metadata}

\* filterConditions of querySuccessPatterns; a JavaScript-falsy filter
\* (missing or empty string) adds no condition
successFilter(filters) ==
    [type |-> "success_pattern"]
    @@ (IF Has(filters, "destination") /\ filters.destination # <<>>
        THEN [destination |-> toLowerCase(filters.destination)] ELSE EmptyRecord)
    @@ (IF Has(filters, "budgetTier") /\ filters.budgetTier # ""
        THEN [budgetTier |-> filters.budgetTier] ELSE EmptyRecord)
    @@ (IF Has(filters, "category") /\ filters.category # ""
        THEN [category |-> filters.category] ELSE EmptyRecord)

languageFilter == [type |-> "language_pattern"]

parseSuccessPattern(metadata) ==
    [ destination |-> metadata.destination,
      category |-> metadata.category,
      venues |-> JSONparse(metadata.venues),
      budgetTier |-> metadata.budgetTier,
      metadata |-> [localInsights |-> metadata.localInsights] @@ Opt(metadata, "source") ]

parseLanguagePattern(metadata) ==
    [ intent |-> metadata.intent,
      phrases |-> JSONparse(metadata.phrases),
      confidence |-> metadata.confidence,
      mapsTo |-> JSONparse(metadata.mapsTo) ]

\* variant: the pattern filter compares with 0.5 instead of the configured value
keptSuccessAtHalf(ms) == SelectSeq(ms, LAMBDA m : m.score >= 50)

\* the matches that pass `.filter(match => match.score >= threshold)`
keptSuccess(ms) == SelectSeq(ms, LAMBDA m : m.score >= confidenceThreshold)
keptLanguage(ms) == SelectSeq(ms, LAMBDA m : m.score >= languageThreshold)

\* the .map() over the kept matches throws when a JSON.parse throws
successParseThrows(ms) ==
    \E i \in 1..Len(keptSuccess(ms)) : ~JSONparses(keptSuccess(ms)[i].metadata.venues)
languageParseThrows(ms) ==
    \E i \in 1..Len(keptLanguage(ms)) :
        \/ ~JSONparses(keptLanguage(ms)[i].metadata.phrases)
        \/ ~JSONparses(keptLanguage(ms)[i].metadata.mapsTo)

\* value returned by querySuccessPatterns once index.query answered with ms
querySuccessPatterns(ms) ==
    LET kept == keptSuccess(ms) IN
    [ i \in 1..Len(kept) |->
        [ type |-> "success_pattern",
          content |-> parseSuccessPattern(kept[i].metadata),
          confidence |-> kept[i].score,
          source |-> IF Has(kept[i].metadata, "source") /\ kept[i].metadata.source # ""
                     THEN kept[i].metadata.source ELSE "unknown" ] ]

\* value returned by queryLanguagePatterns once index.query answered with ms
queryLanguagePatterns(ms) ==
    LET kept == keptLanguage(ms) IN
    [ i \in 1..Len(kept) |->
        [ type |-> "language_pattern",
          content |-> parseLanguagePattern(kept[i].metadata),
          confidence |-> kept[i].score,
          source |-> "language_corpus" ] ]

-----------------------------------------------------------------------------
(* IntentExtractor *)

JSNull == [null |-> TRUE]

\* a truthy string / number property
Truthy(obj, f, falsy) == Has(obj, f) /\ obj[f] # falsy

\* lhs || rhs for an optional property
OrElse(obj, f, falsy, rhs) == IF Truthy(obj, f, falsy) THEN obj[f] ELSE rhs

\* one iteration of the loop of extractFromPatterns
absorb(acc, message, pattern) ==
    LET langPattern == pattern.content
        matching == \E i \in 1..Len(langPattern.phrases) :
                        includes(message, toLowerCase(langPattern.phrases[i]))
        mapsTo == langPattern.mapsTo
    IN  IF pattern.type # "language_pattern" \/ ~matching THEN acc
        ELSE [confidence |-> Max(acc.confidence, pattern.confidence)]
             @@ (IF Truthy(mapsTo, "budgetTier", "")
                 THEN [budgetTier |-> mapsTo.budgetTier] ELSE Opt(acc, "budgetTier"))
             @@ (IF Has(mapsTo, "interests")
                 THEN [interests |-> (IF Has(acc, "interests") THEN acc.interests ELSE <<>>)
                                     \o mapsTo.interests]
                 ELSE Opt(acc, "interests"))
             @@ (IF Truthy(mapsTo, "pace", "")
                 THEN [pace |-> mapsTo.pace] ELSE Opt(acc, "pace"))
             @@ (IF Truthy(mapsTo, "groupType", "")
                 THEN [groupType |-> mapsTo.groupType] ELSE Opt(acc, "groupType"))

RECURSIVE absorbAll(_, _, _)
absorbAll(acc, message, patterns) ==
    IF patterns = <<>> THEN acc
    ELSE absorbAll(absorb(acc, message, patterns[1]), message, Tail(patterns))

extractFromPatterns(message, patterns) ==
    absorbAll([confidence |-> 0], toLowerCase(message), patterns)

mergeArrays(arr1, arr2) == newSet(arr1 \o arr2)

\* mergeIntents reads properties of aiIntent: a TypeError when it is null
mergeIntentsThrows(ai) == Has(ai, "null")

mergeIntents(ai, patternIntent, originalText) ==
    [ destination |-> OrElse(ai, "destination", <<>>, <<>>),
      dates |-> IF Has(ai, "dates") THEN ai.dates ELSE NoValue,
      interests |-> mergeArrays(IF Has(ai, "interests") THEN ai.interests ELSE <<>>,
                                IF Has(patternIntent, "interests")
                                THEN patternIntent.interests ELSE <<>>),
      budgetTier |-> OrElse(patternIntent, "budgetTier", "",
                            OrElse(ai, "budgetTier", "", "medium")),
      groupType |-> OrElse(patternIntent, "groupType", "",
                           OrElse(ai, "groupType", "", "solo")),
      pace |-> OrElse(patternIntent, "pace", "", OrElse(ai, "pace", "", "moderate")),
      originalText |-> originalText,
      confidence |-> Max(Max(OrElse(ai, "confidence", 0, 0),
                             OrElse(patternIntent, "confidence", 0, 0)), 50) ]

-----------------------------------------------------------------------------
(* DualRAGSystem *)

\* variant: every tier falls through to the default case
getBudgetRangeDefaultOnly(budgetTier) == "€20-50"

getBudgetRange(budgetTier) ==
    CASE budgetTier = "low" -> "€5-20"
      [] budgetTier = "medium" -> "€20-50"
      [] budgetTier = "high" -> "€50-100"
      [] budgetTier = "luxury" -> "€100+"
      [] OTHER -> "€20-50"

\* intent.interests[0] || 'attraction'
firstInterest(i) ==
    IF i.interests # <<>> /\ i.interests[1] # "" THEN i.interests[1] ELSE "attraction"

generateFallbackRecommendations(i) ==
    [ venues |-> << [ name |-> <<"Top ", firstInterest(i), " in ">> \o i.destination,
                      type |-> <<firstInterest(i)>>,
                      priceRange |-> getBudgetRange(i.budgetTier),
                      bookingMethod |-> "online",
                      rating |-> 400,
                      specialNotes |-> <<"Popular with travelers",
                                         "Recommended for first-time visitors">> ] >>,
      confidence |-> Frac(30, 1),
      reasoning |-> <<"I don't have specific success patterns for ">> \o i.destination
                    \o <<" yet, but this is a popular choice for ">>
                    \o join(i.interests, " and ") \o <<" enthusiasts.">>,
      localTips |-> <<"Consider booking in advance", "Check local weather conditions">>,
      alternatives |-> <<>> ]

\* variant: the guard tests venues.length < 5 instead of venues.length === 0
calculateRecommendationConfidenceFullListOnly(patterns, venues) ==
    IF patterns = <<>> \/ Len(venues) < 5 THEN Frac(30, 1)
    ELSE FracMin(FracAdd(Frac(SumConfidence(patterns), Len(patterns)), Frac(20, 1)),
                 Frac(100, 1))

calculateRecommendationConfidence(patterns, venues) ==
    IF patterns = <<>> \/ venues = <<>> THEN Frac(30, 1)
    ELSE LET avgPatternConfidence == Frac(SumConfidence(patterns), Len(patterns))
             venueBonus == FracScale(20, 1, FracMin(Frac(Len(venues), 5), Frac(1, 1)))
         IN  FracMin(FracAdd(avgPatternConfidence, venueBonus), Frac(100, 1))

\* variant: the weights 0.3 and 0.4 of the intent and pattern terms are exchanged
calculateOverallConfidencePatternWeightOnIntent(i, patterns, recommendations) ==
    LET intentConfidence == Frac(i.confidence, 1)
        patternConfidence == IF patterns # <<>>
                             THEN Frac(SumConfidence(patterns), Len(patterns))
                             ELSE Frac(30, 1)
        recommendationConfidence == recommendations.confidence
    IN  FracAdd(FracAdd(FracScale(4, 10, intentConfidence),
                        FracScale(3, 10, patternConfidence)),
                FracScale(3, 10, recommendationConfidence))

calculateOverallConfidence(i, patterns, recommendations) ==
    LET intentConfidence == Frac(i.confidence, 1)
        patternConfidence == IF patterns # <<>>
                             THEN Frac(SumConfidence(patterns), Len(patterns))
                             ELSE Frac(30, 1)
        recommendationConfidence == recommendations.confidence
    IN  FracAdd(FracAdd(FracScale(3, 10, intentConfidence),
                        FracScale(4, 10, patternConfidence)),
                FracScale(3, 10, recommendationConfidence))

\* the loop over successPatterns.slice(0, 3)
RECURSIVE flattenVenues(_)
flattenVenues(patterns) ==
    IF patterns = <<>> THEN <<>>
    ELSE patterns[1].content.venues \o flattenVenues(Tail(patterns))

RECURSIVE flattenTips(_)
flattenTips(patterns) ==
    IF patterns = <<>> THEN <<>>
    ELSE patterns[1].content.metadata.localInsights \o flattenTips(Tail(patterns))

allVenuesOf(patterns) == flattenVenues(slice(patterns, 0, 3))
localTipsOf(patterns) == flattenTips(slice(patterns, 0, 3))

\* generateRecommendations for a non-empty pattern list, given the reasoning
\* that generateContextualResponse returned
generateRecommendations(patterns, reasoning) ==
    LET uniqueVenues == deduplicateVenues(allVenuesOf(patterns))
        topVenues == slice(uniqueVenues, 0, 5)
    IN  [ venues |-> topVenues,
          confidence |-> calculateRecommendationConfidence(patterns, topVenues),
          reasoning |-> reasoning,
          localTips |-> slice(newSet(localTipsOf(patterns)), 0, 5),
          alternatives |-> slice(uniqueVenues, 5, 8) ]

\* variant: patterns without a stored source are left out of the sources
sourcesOfKnownOnly(patterns) ==
    SelectSeq([k \in 1..Len(patterns) |-> patterns[k].source], LAMBDA src : src # "unknown")

sourcesOf(patterns) == [k \in 1..Len(patterns) |-> patterns[k].source]

\* the RAGQueryResponse built by query (processingTime, a wall-clock
\* difference, is left out)
buildResponse(i, patterns, recommendations) ==
    [ intent |-> i,
      recommendations |-> recommendations,
      confidence |-> calculateOverallConfidence(i, patterns, recommendations),
      sources |-> sourcesOf(patterns) ]

\* outcomes of the completion call of generateContextualResponse
ReasoningOnEmptyContent == <<"These venues have proven successful for similar travelers.">>
ReasoningOnFailure ==
    <<"These recommendations are based on successful patterns from similar travelers.">>
CompletionTexts == { <<"LLM reasoning">> }

-----------------------------------------------------------------------------
(* The corpus in the index, and what the external services may answer *)

V(n) == Venue(<<n>>, <<"c">>)

Pattern(id, dest, tier, venues, tips) ==
    [ id |-> id, destination |-> dest, category |-> <<"c">>, budgetTier |-> tier,
      venues |-> venues, metadata |-> [localInsights |-> tips] ]

WithSource(pattern, src) ==
    [pattern EXCEPT !.metadata = [localInsights |-> pattern.metadata.localInsights,
                                  source |-> src]]

Berlin == <<"b", "e">>

SuccessCorpus ==
    { successMetadata(WithSource(Pattern(<<"p", 1>>, Berlin, "low",
          << Venue(<<"a", "_", "b">>, <<"c">>), Venue(<<"a">>, <<"b", "_", "c">>), V("b") >>,
          <<"t1", "t2">>), "corpus")),
      successMetadata(Pattern(<<"p", 2>>, Berlin, "low",
          << V("A"), V("a"), Venue(<<"b">>, <<"C">>) >>, <<"t2", "t3", "t4">>)),
      successMetadata(WithSource(Pattern(<<"p", 3>>, Berlin, "low",
          << V("d"), V("e"), V("f") >>, <<"t5", "t6">>), "web_search")),
      successMetadata(WithSource(Pattern(<<"p", 4>>, Berlin, "low",
          << V("g"), V("h"), V("i"), V("j") >>, <<"t7">>), "corpus")),
      successMetadata(WithSource(Pattern(<<"p", 5>>, Berlin, "medium",
          << >>, << >>), "corpus")),
      successMetadata(WithSource(Pattern(<<"p", 6>>, <<"B", "e">>, "medium",
          << V("a") >>, <<"t1">>), "corpus")),
      [ successMetadata(WithSource(Pattern(<<"p", 7>>, Berlin, "high",
          << >>, << >>), "corpus")) EXCEPT !.venues = MalformedJSON ] }

LanguageCorpus ==
    { languageMetadata([ id |-> <<"l", 1>>, intent |-> "budget_expression",
                         phrases |-> << <<"b", "r", "o">> >>, confidence |-> 80,
                         mapsTo |-> [budgetTier |-> "low", interests |-> <<"club">>] ]),
      languageMetadata([ id |-> <<"l", 2>>, intent |-> "group_expression",
                         phrases |-> << <<"F", "a", "m">> >>, confidence |-> 70,
                         mapsTo |-> [groupType |-> "family", pace |-> "relaxed",
                                     interests |-> <<"club", "food">>] ]) }

Messages == { <<"B", "r", "o">>, <<"B", "r", "o", "f", "a", "m">>, <<"z">> }

\* JSON objects the completion may return to extractWithAI.  The reply is
\* parsed and used unvalidated, so a confidence outside [0,1] is possible.
AIObjects ==
    { [ destination |-> <<"B", "e">>, interests |-> <<"club">>, budgetTier |-> "low",
        groupType |-> "friends", pace |-> "intensive", confidence |-> 90 ],
      [ destination |-> Berlin, interests |-> <<"food", "club">>, budgetTier |-> "medium",
        confidence |-> 150 ],
      [ budgetTier |-> "high" ],
      [ destination |-> <<"z">>, budgetTier |-> "luxury", confidence |-> 0 ] }

-----------------------------------------------------------------------------
(* The request task: DualRAGSystem.query, one action per resumed await *)

Idle == pc \in {"idle", "returned", "failed"}

Reject(site) ==
    /\ pc' = "failed"
    /\ outcome' = "error"
    /\ thrownAt' = site

\* a request arrives; query -> extractIntent -> queryLanguagePatterns runs up
\* to `await this.embeddings.embedQuery(query)`.  Requests stop arriving once
\* MaxLearned web patterns were added to the index, which keeps the index finite.
Start ==
    /\ Idle
    /\ system = "SelfLearningRAG" =>
           Cardinality({r \in index : r.vid[2] = "web"}) < MaxLearned
    /\ \E m \in Messages : userMessage' = m
    /\ pc' = "lp_embed"
    /\ langMatches' = <<>> /\ languagePatterns' = <<>>
    /\ aiIntent' = NoValue /\ intent' = NoValue
    /\ matches' = <<>> /\ successPatterns' = <<>>
    /\ response' = NoValue /\ outcome' = "pending" /\ thrownAt' = "none"
    /\ searchIntent' = NoValue /\ newVenues' = <<>> /\ finalResponse' = NoValue
    /\ UNCHANGED <<system, index, learningEnabled, dedupVars, schedulerVars, validatorVars, serverVars>>

\* queryLanguagePatterns: the embedding resolves, index.query is awaited
LanguageEmbedOk ==
    /\ pc = "lp_embed"
    /\ pc' = "lp_index"
    /\ UNCHANGED <<system, index, userMessage, langMatches, languagePatterns, aiIntent,
                   intent, matches, successPatterns, response, outcome, thrownAt,
                   learningEnabled, searchIntent, newVenues, finalResponse, dedupVars, schedulerVars, validatorVars, serverVars>>

\* queryLanguagePatterns: the embedding call rejects; neither
\* queryLanguagePatterns nor extractIntent catches, query rethrows
LanguageEmbedFail ==
    /\ pc = "lp_embed"
    /\ Reject("queryLanguagePatterns.embedQuery")
    /\ UNCHANGED <<system, index, userMessage, langMatches, languagePatterns, aiIntent,
                   intent, matches, successPatterns, response,
                   learningEnabled, searchIntent, newVenues, finalResponse, dedupVars, schedulerVars, validatorVars, serverVars>>

\* queryLanguagePatterns: index.query resolves; filter and map, then
\* extractIntent awaits extractWithAI
LanguageIndexOk ==
    /\ pc = "lp_index"
    /\ \E ms \in indexQuery(index, languageFilter, languageTopK) :
         /\ langMatches' = ms
         /\ IF languageParseThrows(ms)
            THEN /\ Reject("queryLanguagePatterns.parse")
                 /\ UNCHANGED languagePatterns
            ELSE /\ languagePatterns' = queryLanguagePatterns(ms)
                 /\ pc' = "ai"
                 /\ UNCHANGED <<outcome, thrownAt>>
    /\ UNCHANGED <<system, index, userMessage, aiIntent, intent, matches, successPatterns,
                   response, learningEnabled, searchIntent, newVenues, finalResponse,
                   dedupVars, schedulerVars, validatorVars, serverVars>>

LanguageIndexFail ==
    /\ pc = "lp_index"
    /\ Reject("queryLanguagePatterns.indexQuery")
    /\ UNCHANGED <<system, index, userMessage, langMatches, languagePatterns, aiIntent,
                   intent, matches, successPatterns, response,
                   learningEnabled, searchIntent, newVenues, finalResponse, dedupVars, schedulerVars, validatorVars, serverVars>>

\* extractWithAI returned `ai`; extractFromPatterns and mergeIntents run,
\* extractIntent returns, and query calls querySuccessPatterns, which awaits
\* the embedding
AfterAI(ai) ==
    /\ aiIntent' = ai
    /\ IF mergeIntentsThrows(ai)
       THEN /\ Reject("mergeIntents")
            /\ UNCHANGED intent
       ELSE /\ intent' = mergeIntents(ai, extractFromPatterns(userMessage, languagePatterns),
                                      userMessage)
            /\ pc' = "sp_embed"
            /\ UNCHANGED <<outcome, thrownAt>>
    /\ UNCHANGED <<system, index, userMessage, langMatches, languagePatterns, matches,
                   successPatterns, response, learningEnabled, searchIntent, newVenues,
                   finalResponse, dedupVars, schedulerVars, validatorVars, serverVars>>

\* extractWithAI: the completion returned JSON text, JSON.parse succeeded
AIRespond ==
    /\ pc = "ai"
    /\ \E obj \in AIObjects \cup {JSNull} : AfterAI(obj)

\* extractWithAI: the completion rejected, returned no content, or returned
\* text that is not JSON; the catch block returns { confidence: 0.3 }
AIFail ==
    /\ pc = "ai"
    /\ AfterAI([confidence |-> 30])

PatternEmbedOk ==
    /\ pc = "sp_embed"
    /\ pc' = "sp_index"
    /\ UNCHANGED <<system, index, userMessage, langMatches, languagePatterns, aiIntent,
                   intent, matches, successPatterns, response, outcome, thrownAt,
                   learningEnabled, searchIntent, newVenues, finalResponse, dedupVars, schedulerVars, validatorVars, serverVars>>

PatternEmbedFail ==
    /\ pc = "sp_embed"
    /\ Reject("querySuccessPatterns.embedQuery")
    /\ UNCHANGED <<system, index, userMessage, langMatches, languagePatterns, aiIntent,
                   intent, matches, successPatterns, response,
                   learningEnabled, searchIntent, newVenues, finalResponse, dedupVars, schedulerVars, validatorVars, serverVars>>

\* querySuccessPatterns: index.query resolves; filter and map; then
\* generateRecommendations either returns the fallback (query resolves) or
\* runs up to the completion call of generateContextualResponse
PatternIndexOk ==
    /\ pc = "sp_index"
    /\ \E ms \in indexQuery(index,
                            successFilter([destination |-> intent.destination,
                                           budgetTier |-> intent.budgetTier]), topK) :
         /\ matches' = ms
         /\ IF successParseThrows(ms)
            THEN /\ Reject("querySuccessPatterns.parse")
                 /\ UNCHANGED <<successPatterns, response>>
            ELSE LET patterns == querySuccessPatterns(ms) IN
                 /\ successPatterns' = patterns
                 /\ UNCHANGED thrownAt
                 /\ IF patterns = <<>>
                    THEN /\ response' = buildResponse(intent, patterns,
                                            generateFallbackRecommendations(intent))
                         /\ outcome' = "response"
                         /\ pc' = "done"
                    ELSE /\ pc' = "reasoning"
                         /\ UNCHANGED <<response, outcome>>
    /\ UNCHANGED <<system, index, userMessage, langMatches, languagePatterns, aiIntent,
                   intent, learningEnabled, searchIntent, newVenues, finalResponse,
                   dedupVars, schedulerVars, validatorVars, serverVars>>

PatternIndexFail ==
    /\ pc = "sp_index"
    /\ Reject("querySuccessPatterns.indexQuery")
    /\ UNCHANGED <<system, index, userMessage, langMatches, languagePatterns, aiIntent,
                   intent, matches, successPatterns, response,
                   learningEnabled, searchIntent, newVenues, finalResponse, dedupVars, schedulerVars, validatorVars, serverVars>>

\* generateContextualResponse returned `reasoning`; generateRecommendations
\* returns and query resolves with the response
AfterReasoning(reasoning) ==
    /\ pc = "reasoning"
    /\ response' = buildResponse(intent, successPatterns,
                                 generateRecommendations(successPatterns, reasoning))
    /\ outcome' = "response"
    /\ pc' = "done"
    /\ UNCHANGED <<system, index, userMessage, langMatches, languagePatterns, aiIntent,
                   intent, matches, successPatterns, thrownAt,
                   learningEnabled, searchIntent, newVenues, finalResponse, dedupVars, schedulerVars, validatorVars, serverVars>>

ReasoningOk ==
    \E text \in CompletionTexts \cup {<<>>} :
        AfterReasoning(IF text = <<>> THEN ReasoningOnEmptyContent ELSE text)

\* variant: the catch block of generateContextualResponse rethrows
ReasoningFailRethrows ==
    /\ pc = "reasoning"
    /\ Reject("generateContextualResponse")
    /\ UNCHANGED <<system, index, userMessage, langMatches, languagePatterns, aiIntent,
                   intent, matches, successPatterns, response,
                   learningEnabled, searchIntent, newVenues, finalResponse,
                   dedupVars, schedulerVars, validatorVars, serverVars>>

\* the completion call rejects: the catch block returns the fixed sentence
ReasoningFail == AfterReasoning(ReasoningOnFailure)

\* the caller of DualRAGSystem.query receives the response
Deliver ==
    /\ pc = "done"
    /\ system = "DualRAGSystem"
    /\ finalResponse' = response
    /\ pc' = "returned"
    /\ UNCHANGED <<system, index, userMessage, langMatches, languagePatterns, aiIntent,
                   intent, matches, successPatterns, response, outcome, thrownAt,
                   learningEnabled, searchIntent, newVenues, dedupVars, schedulerVars, validatorVars, serverVars>>

-----------------------------------------------------------------------------
(* SelfLearningRAG.query: the continuation after `await super.query(request)` *)

SearchIntents ==
    { [ searchable |-> TRUE, destination |-> <<"B", "e">>, venueType |-> <<"c">>,
        searchQuery |-> "q" ],
      [ searchable |-> TRUE, venueType |-> <<"c">>, searchQuery |-> "q" ],
      [ searchable |-> FALSE ] }

\* parsed.venues of the completion that stands in for the web search
WebResultLists ==
    { << [name |-> <<"a">>, type |-> <<"c">>, price |-> [euro |-> 10]] >>,
      << [name |-> <<"k">>], [name |-> <<"k">>, website |-> "w"] >> }

convertToVenues(webResults, si) ==
    [ k \in 1..Len(webResults) |->
        [ name |-> webResults[k].name,
          type |-> IF Truthy(webResults[k], "type", <<>>) THEN webResults[k].type
                   ELSE OrElse(si, "venueType", <<>>, <<"venue">>),
          priceRange |-> IF Has(webResults[k], "price") THEN webResults[k].price
                         ELSE [text |-> "Check venue"],
          bookingMethod |-> IF Truthy(webResults[k], "website", "")
                            THEN "online" ELSE "direct",
          rating |-> 400,
          specialNotes |-> <<"Found via web search", "Verify details before visiting">> ] ]

RECURSIVE SumEuro(_)
SumEuro(prices) == IF prices = <<>> THEN 0 ELSE prices[1].euro + SumEuro(Tail(prices))

\* a priceRange holds '€' followed by digits when it has the field euro
inferBudgetTier(venues) ==
    LET prices == SelectSeq([k \in 1..Len(venues) |-> venues[k].priceRange],
                            LAMBDA pr : Has(pr, "euro"))
    IN  IF prices = <<>> THEN "medium"
        ELSE IF SumEuro(prices) < 20 * Len(prices) THEN "low"
        ELSE IF SumEuro(prices) < 50 * Len(prices) THEN "medium"
        ELSE IF SumEuro(prices) < 100 * Len(prices) THEN "high"
        ELSE "luxury"

\* addToCorpus evaluates searchIntent.destination.toLowerCase() outside its try
addToCorpusThrows(si) == ~Has(si, "destination")

\* the SuccessPattern built by addToCorpus; its id (time and random suffix)
\* is new, here the number of web patterns stored so far
webPattern(venues, si, stored) ==
    [ id |-> <<"web", Cardinality({r \in stored : r.vid[2] = "web"})>>,
      destination |-> toLowerCase(si.destination),
      category |-> OrElse(si, "venueType", <<>>, <<"general">>),
      venues |-> venues,
      budgetTier |-> inferBudgetTier(venues),
      metadata |-> [ source |-> "web_search",
                     localInsights |-> <<"Found via web search for the search query",
                                         "Information should be verified">> ] ]

\* the `Return enhanced response` object literal
enhancedResponse(ragResponse, venues) ==
    [ ragResponse EXCEPT
        !.recommendations =
            [ ragResponse.recommendations EXCEPT
                !.venues = slice(venues \o ragResponse.recommendations.venues, 0, 5),
                !.localTips = <<"These venues were found through web search",
                                "Information may need verification">>
                              \o ragResponse.recommendations.localTips ],
        !.confidence = FracMax(ragResponse.confidence, Frac(60, 1)),
        !.sources = Append(ragResponse.sources, "web_search") ]

Return(resp) ==
    /\ finalResponse' = resp
    /\ pc' = "returned"

\* super.query resolved; return it when it is good enough, else await
\* extractSearchIntent
SelfCheck ==
    /\ pc = "done"
    /\ system = "SelfLearningRAG"
    /\ IF FracGE(response.confidence, Frac(70, 1)) /\ response.recommendations.venues # <<>>
       THEN Return(response)
       ELSE pc' = "sl_intent" /\ UNCHANGED finalResponse
    /\ UNCHANGED <<system, index, userMessage, langMatches, languagePatterns, aiIntent,
                   intent, matches, successPatterns, response, outcome, thrownAt,
                   learningEnabled, searchIntent, newVenues, dedupVars, schedulerVars, validatorVars, serverVars>>

AfterSearchIntent(si) ==
    /\ pc = "sl_intent"
    /\ searchIntent' = si
    /\ IF ~si.searchable
       THEN Return(response)
       ELSE pc' = "sl_web" /\ UNCHANGED finalResponse
    /\ UNCHANGED <<system, index, userMessage, langMatches, languagePatterns, aiIntent,
                   intent, matches, successPatterns, response, outcome, thrownAt,
                   learningEnabled, newVenues, dedupVars, schedulerVars, validatorVars, serverVars>>

SearchIntentOk == \E si \in SearchIntents : AfterSearchIntent(si)

\* extractSearchIntent catches and returns { searchable: false }
SearchIntentFail == AfterSearchIntent([searchable |-> FALSE])

\* searchWeb returned; convertToVenues; addToCorpus runs up to
\* `await this.vectorStore.upsertSuccessPatterns(...)` when learning is on
AfterWebSearch(webResults) ==
    /\ pc = "sl_web"
    /\ IF webResults = <<>>
       THEN /\ Return(response)
            /\ UNCHANGED <<newVenues, thrownAt>>
       ELSE LET venues == convertToVenues(webResults, searchIntent) IN
            /\ newVenues' = venues
            /\ IF ~learningEnabled
               THEN Return(enhancedResponse(response, venues)) /\ UNCHANGED thrownAt
               ELSE IF addToCorpusThrows(searchIntent)
               THEN /\ pc' = "failed"
                    /\ thrownAt' = "addToCorpus"
                    /\ UNCHANGED finalResponse
               ELSE pc' = "sl_upsert" /\ UNCHANGED <<finalResponse, thrownAt>>
    /\ UNCHANGED <<system, index, userMessage, langMatches, languagePatterns, aiIntent,
                   intent, matches, successPatterns, response, outcome,
                   learningEnabled, searchIntent, dedupVars, schedulerVars, validatorVars, serverVars>>

WebSearchOk == \E webResults \in WebResultLists \cup {<<>>} : AfterWebSearch(webResults)

\* searchWeb catches and returns []
WebSearchFail == AfterWebSearch(<<>>)

\* upsertSuccessPatterns resolved: the pattern is in the index
UpsertOk ==
    /\ pc = "sl_upsert"
    /\ index' = upsert(index, successMetadata(webPattern(newVenues, searchIntent, index)))
    /\ Return(enhancedResponse(response, newVenues))
    /\ UNCHANGED <<system, userMessage, langMatches, languagePatterns, aiIntent,
                   intent, matches, successPatterns, response, outcome, thrownAt,
                   learningEnabled, searchIntent, newVenues, dedupVars, schedulerVars, validatorVars, serverVars>>

\* upsertSuccessPatterns rejected (embedding or index): addToCorpus catches
UpsertFail ==
    /\ pc = "sl_upsert"
    /\ Return(enhancedResponse(response, newVenues))
    /\ UNCHANGED <<system, index, userMessage, langMatches, languagePatterns, aiIntent,
                   intent, matches, successPatterns, response, outcome, thrownAt,
                   learningEnabled, searchIntent, newVenues, dedupVars, schedulerVars, validatorVars, serverVars>>

enableLearning ==
    /\ Idle
    /\ system = "SelfLearningRAG"
    /\ \E enabled \in BOOLEAN : enabled # learningEnabled /\ learningEnabled' = enabled
    /\ UNCHANGED <<system, index, pc, userMessage, langMatches, languagePatterns, aiIntent,
                   intent, matches, successPatterns, response, outcome, thrownAt,
                   searchIntent, newVenues, finalResponse, dedupVars, schedulerVars, validatorVars, serverVars>>

QueryNext ==
    \/ Start
    \/ LanguageEmbedOk \/ LanguageEmbedFail
    \/ LanguageIndexOk \/ LanguageIndexFail
    \/ AIRespond \/ AIFail
    \/ PatternEmbedOk \/ PatternEmbedFail
    \/ PatternIndexOk \/ PatternIndexFail
    \/ ReasoningOk \/ ReasoningFail

QueryInitExceptIndex ==
    /\ pc = "idle"
    /\ userMessage = <<>>
    /\ langMatches = <<>> /\ languagePatterns = <<>>
    /\ aiIntent = NoValue /\ intent = NoValue
    /\ matches = <<>> /\ successPatterns = <<>>
    /\ response = NoValue /\ outcome = "pending" /\ thrownAt = "none"
    /\ learningEnabled = TRUE
    /\ searchIntent = NoValue /\ newVenues = <<>> /\ finalResponse = NoValue

QueryInit ==
    /\ index = SuccessCorpus \cup LanguageCorpus
    /\ QueryInitExceptIndex

DedupIdle == venuesIn = <<>> /\ venuesOut = <<>>

\* no DayPlanner was constructed, no VenueValidator was constructed
SchedulerIdle ==
    /\ planArgs = NoValue /\ plan = NoValue
    /\ isOpenArgs = NoValue /\ isOpenResult = NoValue
    /\ matchesBudgetArgs = NoValue /\ matchesBudgetResult = NoValue
ValidatorIdle == cacheMap = <<>> /\ now = 0 /\ calls = <<>>
\* server.ts was not loaded
ServerIdle == server = NoValue

Init ==
    /\ ServerIdle
    /\ system = "DualRAGSystem"
    /\ QueryInit
    /\ DedupIdle
    /\ SchedulerIdle
    /\ ValidatorIdle

Next == QueryNext \/ Deliver

Spec == Init /\ [][Next]_vars

\* SelfLearningRAG over a small corpus
LearnCorpus ==
    {r \in SuccessCorpus : r.vid \in {<<"success", "p", 1>>, <<"success", "p", 2>>}}
    \cup {r \in LanguageCorpus : r.vid = <<"language", "l", 1>>}

LearnInit ==
    /\ ServerIdle
    /\ system = "SelfLearningRAG"
    /\ QueryInitExceptIndex
    /\ index = LearnCorpus
    /\ DedupIdle
    /\ SchedulerIdle
    /\ ValidatorIdle

LearnNext ==
    \/ QueryNext
    \/ SelfCheck
    \/ SearchIntentOk \/ SearchIntentFail
    \/ WebSearchOk \/ WebSearchFail
    \/ UpsertOk \/ UpsertFail
    \/ enableLearning

SpecLearn == LearnInit /\ [][LearnNext]_vars

-----------------------------------------------------------------------------
(* deduplicateVenues as a function of its argument *)

DedupInit ==
    /\ ServerIdle
    /\ system = "DualRAGSystem"
    /\ QueryInit
    /\ venuesIn \in SeqsUpTo(VenueUniverse, MaxVenueList)
    /\ venuesOut = <<>>
    /\ SchedulerIdle
    /\ ValidatorIdle

CallDeduplicate ==
    /\ venuesOut = <<>>
    /\ venuesIn # <<>>
    /\ venuesOut' = deduplicateVenues(venuesIn)
    /\ UNCHANGED <<venuesIn, queryVars, schedulerVars, validatorVars, serverVars>>

SpecDedup == DedupInit /\ [][CallDeduplicate]_vars

-----------------------------------------------------------------------------
(* DayPlanner  src/src/core/affiliate-engine.ts:945-1359                    *)
(*                                                                         *)
(* Times of day are 'HH:MM' strings, as in the schedule templates.  A date *)
(* is the number of days since 1970-01-01.  Distances are tenths of a      *)
(* kilometre; the activities of the model carry no coordinates, so the     *)
(* distance between two of them is the one estimated from their addresses. *)
(* slot.affiliateLink, decided by the affiliate engine, is left out.       *)

MaxActivities == 2
MaxBookings == 2

Digits == {"0", "1", "2", "3", "4", "5", "6", "7", "8", "9"}

DigitValue(c) ==
    CASE c = "0" -> 0 [] c = "1" -> 1 [] c = "2" -> 2 [] c = "3" -> 3 [] c = "4" -> 4
      [] c = "5" -> 5 [] c = "6" -> 6 [] c = "7" -> 7 [] c = "8" -> 8 [] c = "9" -> 9

\* Number(s) / parseInt(s) of a string of decimal digits
RECURSIVE Number(_)
Number(s) ==
    IF s = <<>> THEN 0
    ELSE 10 * Number(SubSeq(s, 1, Len(s) - 1)) + DigitValue(s[Len(s)])

\* time.split(':'): the parts before and after the colon
split(time) ==
    LET colon == CHOOSE i \in 1..Len(time) : time[i] = ":" /\ \A j \in 1..(i - 1) : time[j] # ":"
    IN  << SubSeq(time, 1, colon - 1), SubSeq(time, colon + 1, Len(time)) >>

timeToMinutes(time) ==
    LET hours == Number(split(time)[1])
        minutes == Number(split(time)[2])
    IN  hours * 60 + minutes

days == <<"Sunday", "Monday", "Tuesday", "Wednesday", "Thursday", "Friday", "Saturday">>

\* new Date(date).getDay(): 1970-01-01 was a Thursday
getDay(date) == (date + 4) % 7

getDayOfWeek(date) == days[getDay(date) + 1]

TemplateSlot(time, type) == [time |-> time, type |-> type]

getScheduleTemplate(pace) ==
    CASE pace = "relaxed" ->
           << TemplateSlot(<<"0", "9", ":", "3", "0">>, <<"b", "r", "e", "a", "k", "f", "a", "s", "t">>),
              TemplateSlot(<<"1", "1", ":", "0", "0">>, <<"m", "o", "r", "n", "i", "n", "g", "_", "a", "c", "t", "i", "v", "i", "t", "y">>),
              TemplateSlot(<<"1", "3", ":", "3", "0">>, <<"l", "u", "n", "c", "h">>),
              TemplateSlot(<<"1", "5", ":", "3", "0">>, <<"a", "f", "t", "e", "r", "n", "o", "o", "n", "_", "a", "c", "t", "i", "v", "i", "t", "y">>),
              TemplateSlot(<<"1", "7", ":", "3", "0">>, <<"c", "o", "f", "f", "e", "e">>),
              TemplateSlot(<<"1", "9", ":", "3", "0">>, <<"d", "i", "n", "n", "e", "r">>),
              TemplateSlot(<<"2", "2", ":", "0", "0">>, <<"e", "v", "e", "n", "i", "n", "g", "_", "a", "c", "t", "i", "v", "i", "t", "y">>) >>
      [] pace = "moderate" ->
           << TemplateSlot(<<"0", "9", ":", "0", "0">>, <<"b", "r", "e", "a", "k", "f", "a", "s", "t">>),
              TemplateSlot(<<"1", "0", ":", "3", "0">>, <<"m", "o", "r", "n", "i", "n", "g", "_", "a", "c", "t", "i", "v", "i", "t", "y">>),
              TemplateSlot(<<"1", "3", ":", "0", "0">>, <<"l", "u", "n", "c", "h">>),
              TemplateSlot(<<"1", "4", ":", "3", "0">>, <<"a", "f", "t", "e", "r", "n", "o", "o", "n", "_", "a", "c", "t", "i", "v", "i", "t", "y">>),
              TemplateSlot(<<"1", "7", ":", "0", "0">>, <<"c", "o", "f", "f", "e", "e">>),
              TemplateSlot(<<"1", "9", ":", "0", "0">>, <<"d", "i", "n", "n", "e", "r">>),
              TemplateSlot(<<"2", "1", ":", "3", "0">>, <<"e", "v", "e", "n", "i", "n", "g", "_", "a", "c", "t", "i", "v", "i", "t", "y">>),
              TemplateSlot(<<"2", "3", ":", "3", "0">>, <<"n", "i", "g", "h", "t", "l", "i", "f", "e">>) >>
      [] pace = "intensive" ->
           << TemplateSlot(<<"0", "8", ":", "0", "0">>, <<"b", "r", "e", "a", "k", "f", "a", "s", "t">>),
              TemplateSlot(<<"0", "9", ":", "3", "0">>, <<"m", "o", "r", "n", "i", "n", "g", "_", "a", "c", "t", "i", "v", "i", "t", "y">>),
              TemplateSlot(<<"1", "2", ":", "0", "0">>, <<"q", "u", "i", "c", "k", "_", "l", "u", "n", "c", "h">>),
              TemplateSlot(<<"1", "3", ":", "0", "0">>, <<"a", "f", "t", "e", "r", "n", "o", "o", "n", "_", "a", "c", "t", "i", "v", "i", "t", "y", "_", "1">>),
              TemplateSlot(<<"1", "5", ":", "3", "0">>, <<"a", "f", "t", "e", "r", "n", "o", "o", "n", "_", "a", "c", "t", "i", "v", "i", "t", "y", "_", "2">>),
              TemplateSlot(<<"1", "7", ":", "3", "0">>, <<"c", "o", "f", "f", "e", "e">>),
              TemplateSlot(<<"1", "9", ":", "0", "0">>, <<"d", "i", "n", "n", "e", "r">>),
              TemplateSlot(<<"2", "1", ":", "0", "0">>, <<"e", "v", "e", "n", "i", "n", "g", "_", "a", "c", "t", "i", "v", "i", "t", "y">>),
              TemplateSlot(<<"2", "3", ":", "0", "0">>, <<"n", "i", "g", "h", "t", "l", "i", "f", "e">>),
              TemplateSlot(<<"0", "2", ":", "0", "0">>, <<"l", "a", "t", "e", "_", "n", "i", "g", "h", "t", "_", "f", "o", "o", "d">>) >>

\* variant: the flagship closure is tested after the missing-hours shortcut
isOpenAtHoursFirst(activity, time, dayOfWeek) ==
    IF ~Truthy(activity, "openTime", <<>>) \/ ~Truthy(activity, "closeTime", <<>>)
    THEN TRUE
    ELSE IF includes(toLowerCase(activity.name), <<"b", "e", "r", "g", "h", "a", "i", "n">>) /\ dayOfWeek = "Monday"
    THEN FALSE
    ELSE LET timeMin == timeToMinutes(time)
             openMin == timeToMinutes(activity.openTime)
             closeMin == timeToMinutes(activity.closeTime)
         IN  IF closeMin < openMin
             THEN timeMin >= openMin \/ timeMin <= closeMin
             ELSE timeMin >= openMin /\ timeMin <= closeMin

\* variant: an overnight venue is tested like a daytime one
isOpenAtNoOvernight(activity, time, dayOfWeek) ==
    IF includes(toLowerCase(activity.name), <<"b", "e", "r", "g", "h", "a", "i", "n">>) /\ dayOfWeek = "Monday"
    THEN FALSE
    ELSE IF ~Truthy(activity, "openTime", <<>>) \/ ~Truthy(activity, "closeTime", <<>>)
    THEN TRUE
    ELSE timeToMinutes(time) >= timeToMinutes(activity.openTime)
         /\ timeToMinutes(time) <= timeToMinutes(activity.closeTime)

isOpenAt(activity, time, dayOfWeek) ==
    IF includes(toLowerCase(activity.name), <<"b", "e", "r", "g", "h", "a", "i", "n">>) /\ dayOfWeek = "Monday"
    THEN FALSE
    ELSE IF ~Truthy(activity, "openTime", <<>>) \/ ~Truthy(activity, "closeTime", <<>>)
    THEN TRUE
    ELSE LET timeMin == timeToMinutes(time)
             openMin == timeToMinutes(activity.openTime)
             closeMin == timeToMinutes(activity.closeTime)
         IN  IF closeMin < openMin
             THEN timeMin >= openMin \/ timeMin <= closeMin
             ELSE timeMin >= openMin /\ timeMin <= closeMin

matchesBudget(activity, budget) ==
    LET price == toLowerCase(activity.price) IN
    IF budget = "low"
    THEN \/ includes(price, <<"f", "r", "e", "e">>)
         \/ includes(price, <<"€", "5">>)
         \/ includes(price, <<"€", "1", "0">>)
         \/ includes(price, <<"€", "1", "5">>)
         \/ includes(price, <<"b", "u", "d", "g", "e", "t">>)
    ELSE IF budget = "medium"
    THEN /\ ~includes(price, <<"€", "1", "0", "0">>)
         /\ ~includes(price, <<"€", "2", "0", "0">>)
         /\ ~includes(price, <<"l", "u", "x", "u", "r", "y">>)
    ELSE TRUE

RECURSIVE scoreActivity(_, _)
scoreActivity(activity, interests) ==
    IF interests = <<>> THEN 0
    ELSE (IF \/ includes(toLowerCase(activity.type), toLowerCase(interests[1]))
             \/ includes(toLowerCase(activity.name), toLowerCase(interests[1]))
          THEN 10 ELSE 0)
         + scoreActivity(activity, Tail(interests))

\* the slot-type rules of the filter callback of selectBestActivity
matchesSlotType(slotType, activity) ==
    /\ ~(/\ includes(slotType, <<"b", "r", "e", "a", "k", "f", "a", "s", "t">>)
         /\ ~includes(activity.type, <<"b", "r", "e", "a", "k", "f", "a", "s", "t">>)
         /\ ~includes(activity.type, <<"c", "a", "f", "e">>))
    /\ ~(/\ includes(slotType, <<"l", "u", "n", "c", "h">>)
         /\ ~includes(activity.type, <<"r", "e", "s", "t", "a", "u", "r", "a", "n", "t">>)
         /\ ~includes(activity.type, <<"l", "u", "n", "c", "h">>))
    /\ ~(/\ includes(slotType, <<"d", "i", "n", "n", "e", "r">>)
         /\ ~includes(activity.type, <<"r", "e", "s", "t", "a", "u", "r", "a", "n", "t">>)
         /\ ~includes(activity.type, <<"d", "i", "n", "n", "e", "r">>))
    /\ ~(/\ includes(slotType, <<"c", "o", "f", "f", "e", "e">>)
         /\ ~includes(activity.type, <<"c", "a", "f", "e">>)
         /\ ~includes(activity.type, <<"c", "o", "f", "f", "e", "e">>))
    /\ ~(/\ includes(slotType, <<"n", "i", "g", "h", "t", "l", "i", "f", "e">>)
         /\ ~includes(activity.type, <<"c", "l", "u", "b">>)
         /\ ~includes(activity.type, <<"b", "a", "r">>))

\* the activities that pass the filter, in input order
suitableFor(slotType, availableActivities, preferences, dayOfWeek, time) ==
    SelectSeq(availableActivities,
              LAMBDA activity : /\ matchesSlotType(slotType, activity)
                                /\ isOpenAt(activity, time, dayOfWeek)
                                /\ matchesBudget(activity, preferences.budget))

\* Array.prototype.sort with the comparator (a, b) => key(a) - key(b), on a
\* list of [k |-> key, v |-> element]: stable, ascending
RECURSIVE insertByKey(_, _)
insertByKey(sorted, e) ==
    IF sorted = <<>> THEN <<e>>
    ELSE IF sorted[1].k <= e.k THEN <<sorted[1]>> \o insertByKey(Tail(sorted), e)
    ELSE <<e>> \o sorted

RECURSIVE sortByKey(_)
sortByKey(keyed) ==
    IF keyed = <<>> THEN <<>>
    ELSE insertByKey(sortByKey(SubSeq(keyed, 1, Len(keyed) - 1)), keyed[Len(keyed)])

valuesOf(keyed) == [i \in 1..Len(keyed) |-> keyed[i].v]

\* variant: with no suitable activity the first available one is taken
selectBestActivityOrFirst(slotType, availableActivities, preferences, dayOfWeek, time) ==
    LET suitable == suitableFor(slotType, availableActivities, preferences, dayOfWeek, time)
    IN  IF suitable # <<>> THEN suitable[1]
        ELSE IF availableActivities # <<>> THEN availableActivities[1]
        ELSE JSNull

selectBestActivity(slotType, availableActivities, preferences, dayOfWeek, time) ==
    LET suitable == suitableFor(slotType, availableActivities, preferences, dayOfWeek, time)
        sorted == valuesOf(sortByKey(
                      [i \in 1..Len(suitable) |->
                          [k |-> 0 - scoreActivity(suitable[i], preferences.interests),
                           v |-> suitable[i]]]))
    IN  IF sorted = <<>> THEN JSNull ELSE sorted[1]

generateTips(activity, time) ==
    LET hour == Number(split(time)[1]) IN
    (IF includes(activity.type, <<"r", "e", "s", "t", "a", "u", "r", "a", "n", "t">>)
     THEN (IF hour >= 12 /\ hour <= 14
           THEN <<"Lunch rush - reservation recommended">> ELSE <<>>)
          \o (IF hour >= 19 /\ hour <= 21
              THEN <<"Peak dinner time - expect wait without reservation">> ELSE <<>>)
     ELSE <<>>)
    \o (IF includes(activity.type, <<"c", "l", "u", "b">>)
        THEN IF includes(toLowerCase(activity.name), <<"b", "e", "r", "g", "h", "a", "i", "n">>)
             THEN <<"Dress code: Black/techno style", "Don't be too drunk or too sober",
                    "Go in small groups or alone", "Rejection is common - have backup plan">>
             ELSE <<"Check dress code in advance">>
        ELSE <<>>)
    \o (IF includes(activity.type, <<"m", "u", "s", "e", "u", "m">>)
        THEN <<"Audio guide available">>
             \o (IF hour >= 10 /\ hour <= 16
                 THEN <<"Peak hours - skip-the-line ticket worth it">> ELSE <<>>)
        ELSE <<>>)
    \o (IF includes(activity.type, <<"c", "a", "f", "e">>)
        THEN <<"Good wifi for remote work", "Power outlets available">>
        ELSE <<>>)

createTimeSlot(time, activity) ==
    [time |-> time, activity |-> activity, tips |-> generateTips(activity, time)]

\* the loop `for (const timeSlot of schedule)` of createDayPlan
RECURSIVE fillDay(_, _, _, _, _, _)
fillDay(schedule, slots, plannedTimes, availableActivities, preferences, dayOfWeek) ==
    IF schedule = <<>> THEN slots
    ELSE LET timeSlot == schedule[1]
             activity == selectBestActivity(timeSlot.type, availableActivities,
                                            preferences, dayOfWeek, timeSlot.time)
         IN  IF timeSlot.time \in plannedTimes \/ activity = JSNull
             THEN fillDay(Tail(schedule), slots, plannedTimes,
                          availableActivities, preferences, dayOfWeek)
             ELSE fillDay(Tail(schedule),
                          Append(slots, createTimeSlot(timeSlot.time, activity)),
                          plannedTimes \cup {timeSlot.time},
                          availableActivities, preferences, dayOfWeek)

estimateDistance(from, to) ==
    IF includes(from.address, <<"M", "i", "t", "t", "e">>) /\ includes(to.address, <<"M", "i", "t", "t", "e">>) THEN 15
    ELSE IF includes(from.address, <<"K", "r", "e", "u", "z", "b", "e", "r", "g">>) /\ includes(to.address, <<"K", "r", "e", "u", "z", "b", "e", "r", "g">>)
    THEN 10
    ELSE 30

\* Math.ceil((distance / 4) * 60) + 5, distance in tenths of a kilometre
estimateTravelTime(distance) == (distance * 60 + 39) \div 40 + 5

addTravelTimes(slots) ==
    [ i \in 1..Len(slots) |->
        IF i = 1 THEN slots[i]
        ELSE [travelTime |-> estimateTravelTime(
                                 estimateDistance(slots[i - 1].activity, slots[i].activity))]
             @@ slots[i] ]

some(slots, needle) == \E i \in 1..Len(slots) : includes(slots[i].activity.type, needle)

RECURSIVE tightTimings(_, _)
\* variant: the travel time is left out of the comparison
RECURSIVE tightTimingsWithoutTravel(_, _)
tightTimingsWithoutTravel(slots, i) ==
    IF i > Len(slots) THEN <<>>
    ELSE (IF timeToMinutes(slots[i - 1].time) + slots[i - 1].activity.duration
                 > timeToMinutes(slots[i].time)
          THEN << <<"Tight timing between ", slots[i - 1].activity.name, " and ",
                    slots[i].activity.name>> >>
          ELSE <<>>)
         \o tightTimingsWithoutTravel(slots, i + 1)

tightTimings(slots, i) ==
    IF i > Len(slots) THEN <<>>
    ELSE LET prevEnd == timeToMinutes(slots[i - 1].time) + slots[i - 1].activity.duration
             nextStart == timeToMinutes(slots[i].time)
             travelTime == OrElse(slots[i], "travelTime", 0, 0)
         IN  (IF prevEnd + travelTime > nextStart
              THEN << <<"Tight timing between ", slots[i - 1].activity.name, " and ",
                        slots[i].activity.name>> >>
              ELSE <<>>)
             \o tightTimings(slots, i + 1)

generateWarnings(slots, dayOfWeek) ==
    (IF dayOfWeek = "Monday" /\ some(slots, <<"m", "u", "s", "e", "u", "m">>)
     THEN << <<"Many museums closed on Mondays - verify opening hours">> >> ELSE <<>>)
    \o (IF dayOfWeek = "Sunday" /\ some(slots, <<"s", "h", "o", "p">>)
        THEN << <<"Many shops closed on Sundays in Germany">> >> ELSE <<>>)
    \o tightTimings(slots, 2)
    \o (IF some(slots, <<"p", "a", "r", "k">>) \/ some(slots, <<"m", "a", "r", "k", "e", "t">>) \/ some(slots, <<"o", "u", "t", "d", "o", "o", "r">>)
        THEN << <<"Check weather forecast for outdoor activities">> >> ELSE <<>>)

\* slot.activity.price.match(/€(\d+)/): the digits after the first '€' that
\* a digit follows, or no match
priceMatch(price) ==
    LET starts == {i \in 1..(Len(price) - 1) : price[i] = "€" /\ price[i + 1] \in Digits}
    IN  IF starts = {} THEN JSNull
        ELSE LET first == CHOOSE i \in starts : \A j \in starts : i <= j
                 last == CHOOSE k \in (first + 1)..Len(price) :
                             /\ \A j \in (first + 1)..k : price[j] \in Digits
                             /\ (k = Len(price) \/ price[k + 1] \notin Digits)
             IN  [digits |-> SubSeq(price, first + 1, last)]

RECURSIVE calculateTotalCost(_)
calculateTotalCost(slots) ==
    IF slots = <<>> THEN 0
    ELSE (IF priceMatch(slots[1].activity.price) = JSNull THEN 0
          ELSE Number(priceMatch(slots[1].activity.price).digits))
         + calculateTotalCost(Tail(slots))

RECURSIVE calculateWalkingDistance(_, _)
calculateWalkingDistance(slots, i) ==
    IF i > Len(slots) THEN 0
    ELSE estimateDistance(slots[i - 1].activity, slots[i].activity)
         + calculateWalkingDistance(slots, i + 1)

\* variant: the slots are returned in the order they were pushed
sortSlotsInsertionOrder(slots) == slots

\* slots.sort((a, b) => timeToMinutes(a.time) - timeToMinutes(b.time))
sortSlots(slots) ==
    valuesOf(sortByKey([i \in 1..Len(slots) |->
                           [k |-> timeToMinutes(slots[i].time), v |-> slots[i]]]))

\* variant: the template loop does not look at the times already planned
generatedSlotsIgnoringPlanned(schedule, fixedBookings, availableActivities, preferences, dayOfWeek) ==
    fillDay(schedule, <<>>, {}, availableActivities, preferences, dayOfWeek)

\* the slots pushed by the template loop, in push order
generatedSlots(schedule, fixedBookings, availableActivities, preferences, dayOfWeek) ==
    fillDay(schedule, <<>>, {fixedBookings[i].time : i \in 1..Len(fixedBookings)},
            availableActivities, preferences, dayOfWeek)

\* variant: only the first fixed booking is pushed
pushFirstFixedBooking(slots, fixedBookings) ==
    slots \o SubSeq(fixedBookings, 1, Min(1, Len(fixedBookings)))

\* slots.push(...fixedBookings)
pushFixedBookings(slots, fixedBookings) == slots \o fixedBookings

createDayPlan(date, availableActivities, fixedBookings, preferences) ==
    LET dayOfWeek == getDayOfWeek(date)
        schedule == getScheduleTemplate(preferences.pace)
        slots == addTravelTimes(sortSlots(
                     pushFixedBookings(<<>>, fixedBookings)
                     \o generatedSlots(schedule, fixedBookings, availableActivities,
                                       preferences, dayOfWeek)))
    IN  [ date |-> date,
          dayOfWeek |-> dayOfWeek,
          slots |-> slots,
          totalCost |-> calculateTotalCost(slots),
          walkingDistance |-> calculateWalkingDistance(slots, 2),
          warnings |-> generateWarnings(slots, dayOfWeek) ]

-----------------------------------------------------------------------------
(* createDayPlan and isOpenAt as functions of their arguments *)

Activity(name, type, address, duration, price) ==
    [name |-> name, type |-> type, address |-> address, duration |-> duration,
     price |-> price]

Hours(openTime, closeTime) == [openTime |-> openTime, closeTime |-> closeTime]

Berghain == Activity(<<"B", "e", "r", "g", "h", "a", "i", "n">>, <<"c", "l", "u", "b">>, <<"K", "r", "e", "u", "z", "b", "e", "r", "g", " ", "2">>, 240, <<"€", "1", "5">>)

Activities ==
    { Activity(<<"C", "a", "f", "e">>, <<"c", "a", "f", "e">>, <<"M", "i", "t", "t", "e", " ", "1">>, 60, <<"€", "5">>),
      Activity(<<"B", "i", "s", "t", "r", "o">>, <<"r", "e", "s", "t", "a", "u", "r", "a", "n", "t">>, <<"M", "i", "t", "t", "e", " ", "2">>, 90, <<"€", "5", "0">>)
          @@ Hours(<<"1", "2", ":", "0", "0">>, <<"2", "2", ":", "0", "0">>),
      Berghain @@ Hours(<<"2", "3", ":", "0", "0">>, <<"0", "6", ":", "0", "0">>),
      Berghain }

FixedBookings ==
    { [time |-> <<"0", "9", ":", "3", "0">>,
       activity |-> Activity(<<"C", "h", "e", "c", "k", "o", "u", "t">>, <<"h", "o", "t", "e", "l">>, <<"M", "i", "t", "t", "e", " ", "9">>, 30, <<>>)],
      [time |-> <<"0", "9", ":", "3", "0">>,
       activity |-> Activity(<<"B", "o", "a", "t">>, <<"t", "o", "u", "r">>, <<"M", "i", "t", "t", "e", " ", "8">>, 60, <<"€", "2", "0">>)],
      [time |-> <<"1", "3", ":", "0", "0">>,
       activity |-> Activity(<<"F", "l", "i", "g", "h", "t">>, <<"t", "r", "a", "n", "s", "p", "o", "r", "t">>, <<"A", "i", "r", "p", "o", "r", "t">>, 120, <<"€", "2", "0", "0">>)] }

\* 1970-01-04 (a Sunday) and 1970-01-05 (a Monday)
Dates == {3, 4}

Preferences ==
    [ pace : {"relaxed", "moderate", "intensive"},
      budget : {"low", "medium", "high"},
      interests : { <<>>, << <<"c", "l", "u", "b">> >> },
      groupType : {"solo"} ]

\* the lists of at most n different elements of S
DistinctSeqsUpTo(S, n) ==
    {s \in SeqsUpTo(S, n) : \A i, j \in 1..Len(s) : i # j => s[i] # s[j]}

PlanInit ==
    /\ ServerIdle
    /\ system = "DualRAGSystem"
    /\ QueryInit
    /\ DedupIdle
    /\ ValidatorIdle
    /\ planArgs \in [ date : Dates,
                      availableActivities : DistinctSeqsUpTo(Activities, MaxActivities),
                      fixedBookings : DistinctSeqsUpTo(FixedBookings, MaxBookings),
                      preferences : Preferences ]
    /\ plan = NoValue
    /\ isOpenArgs = NoValue /\ isOpenResult = NoValue
    /\ matchesBudgetArgs = NoValue /\ matchesBudgetResult = NoValue

CallCreateDayPlan ==
    /\ planArgs # NoValue
    /\ plan = NoValue
    /\ plan' = createDayPlan(planArgs.date, planArgs.availableActivities,
                             planArgs.fixedBookings, planArgs.preferences)
    /\ UNCHANGED <<planArgs, isOpenArgs, isOpenResult, matchesBudgetArgs,
                   matchesBudgetResult, queryVars, dedupVars,
                   validatorVars, serverVars>>

SpecPlan == PlanInit /\ [][CallCreateDayPlan]_vars

HoursOptions ==
    { EmptyRecord,
      [openTime |-> <<"2", "3", ":", "0", "0">>],
      Hours(<<"2", "3", ":", "0", "0">>, <<"0", "6", ":", "0", "0">>),
      Hours(<<"1", "0", ":", "0", "0">>, <<"1", "8", ":", "0", "0">>),
      Hours(<<"1", "2", ":", "0", "0">>, <<"1", "2", ":", "0", "0">>) }

OpenActivities ==
    { Activity(name, <<"c", "l", "u", "b">>, <<"K", "r", "e", "u", "z", "b", "e", "r", "g", " ", "2">>, 240, <<"€", "1", "5">>) @@ hours :
          name \in { <<"B", "e", "r", "g", "h", "a", "i", "n">>, <<"B", "a", "r">> }, hours \in HoursOptions }

OpenTimes ==
    { <<"0", "1", ":", "0", "0">>, <<"0", "6", ":", "0", "0">>, <<"0", "6", ":", "0", "1">>, <<"1", "0", ":", "0", "0">>, <<"1", "2", ":", "0", "0">>, <<"1", "8", ":", "0", "1">>, <<"2", "2", ":", "5", "9">>,
      <<"2", "3", ":", "0", "0">> }

OpenInit ==
    /\ ServerIdle
    /\ system = "DualRAGSystem"
    /\ QueryInit
    /\ DedupIdle
    /\ ValidatorIdle
    /\ planArgs = NoValue /\ plan = NoValue
    /\ isOpenArgs \in [ activity : OpenActivities, time : OpenTimes,
                        dayOfWeek : {"Monday", "Tuesday"} ]
    /\ isOpenResult = NoValue
    /\ matchesBudgetArgs = NoValue /\ matchesBudgetResult = NoValue

CallIsOpenAt ==
    /\ isOpenArgs # NoValue
    /\ isOpenResult = NoValue
    /\ isOpenResult' = [value |-> isOpenAt(isOpenArgs.activity, isOpenArgs.time,
                                           isOpenArgs.dayOfWeek)]
    /\ UNCHANGED <<planArgs, plan, isOpenArgs, matchesBudgetArgs, matchesBudgetResult,
                   queryVars, dedupVars, validatorVars, serverVars>>

SpecOpen == OpenInit /\ [][CallIsOpenAt]_vars

-----------------------------------------------------------------------------
(* VenueValidator  src/src/core/affiliate-engine.ts:622-905                 *)
(*                                                                         *)
(* The wall clock is counted in hours.  The validateVenue calls in         *)
(* progress are a bag of their locals and positions (the pending await);   *)
(* calls.returned is the call that returned last.  The search completion   *)
(* is requested with response_format json_object, but the reply is parsed  *)
(* unchecked: its content may be an object or the JSON value null.         *)

CACHE_DURATION == 24
MaxCalls == 2
MaxClock == 24

\* new Date(t).toISOString() and new Date(iso).getTime()
toISOString(t) == [iso |-> t]
getTime(lastChecked) == lastChecked.iso

startsWith(s, prefix) == Len(s) >= Len(prefix) /\ SubSeq(s, 1, Len(prefix)) = prefix

\* `${venue.name}_${venue.address || venue.type}`
cacheKey(venue) ==
    venue.name \o <<"_">> \o OrElse(venue, "address", <<>>, venue.type)

\* variant: an existing entry is kept (first write wins)
cacheSetIfAbsent(map, key, value) ==
    [k \in DOMAIN map \cup {key} |-> IF k \in DOMAIN map THEN map[k] ELSE value]

\* cacheMap.set(key, value)
cacheSet(map, key, value) ==
    [k \in DOMAIN map \cup {key} |-> IF k = key THEN value ELSE map[k]]

\* variant: an entry exactly CACHE_DURATION old is still served
cachedIsFreshAtDuration(map, key, t) ==
    key \in DOMAIN map /\ t - getTime(map[key].lastChecked) <= CACHE_DURATION

\* `if (cached) { const age = ...; if (age < this.CACHE_DURATION)`
cachedIsFresh(map, key, t) ==
    key \in DOMAIN map /\ t - getTime(map[key].lastChecked) < CACHE_DURATION

aiValidation(venue, websiteValid, searchResult, t) ==
    LET afterWebsite ==
            IF Truthy(venue, "website", <<>>) /\ startsWith(venue.website, <<"h", "t", "t", "p">>)
            THEN (IF websiteValid THEN 50 + 30 ELSE 50 - 20)
            ELSE 50
        \* searchResult.stillOpen === true / === false; absent or null is neither
        stillOpenIs(b) == Has(searchResult, "stillOpen") /\ searchResult.stillOpen = b
        afterSearch ==
            IF stillOpenIs(TRUE)
            THEN [confidence |-> Max(afterWebsite, searchResult.confidence),
                  status |-> "open", isValid |-> TRUE]
            ELSE IF stillOpenIs(FALSE)
            THEN [confidence |-> searchResult.confidence,
                  status |-> "closed", isValid |-> FALSE]
            ELSE [confidence |-> afterWebsite,
                  status |-> "uncertain", isValid |-> afterWebsite > 50]
        iconic == \/ includes(toLowerCase(venue.name), <<"b", "e", "r", "g", "h", "a", "i", "n">>)
                  \/ includes(toLowerCase(venue.name), <<"g", "o", "l", "d", "e", "n", " ", "g", "a", "i">>)
        final == IF iconic
                 THEN [confidence |-> Max(afterSearch.confidence, 90),
                       status |-> "open", isValid |-> TRUE]
                 ELSE afterSearch
    IN  [ venue |-> venue,
          isValid |-> final.isValid,
          status |-> final.status,
          lastChecked |-> toISOString(t),
          confidence |-> final.confidence,
          updatedInfo |-> IF Has(searchResult, "updates") THEN searchResult.updates
                          ELSE EmptyRecord ]

ValidatorVenues ==
    { [name |-> <<"a">>, type |-> <<"c">>, website |-> <<"h", "t", "t", "p", ":", "/", "/", "a">>],
      [name |-> <<"b">>, type |-> <<"c">>] }

\* objects parsed from the search completion
SearchResults ==
    { [stillOpen |-> TRUE, confidence |-> 80, updates |-> [hours |-> "daily"]],
      [stillOpen |-> FALSE, confidence |-> 90],
      EmptyRecord }

\* what the catch block of searchForVenue returns (stillOpen: null)
SearchFailure == [confidence |-> 0]

Returned(venue, fromCache, validation) ==
    [venue |-> venue, fromCache |-> fromCache, validation |-> validation]

\* validateVenue is called: it returns the cached result, or runs up to its
\* first await (checkWebsite when the venue has a website, else searchForVenue)
ValidateVenue(venue) ==
    /\ BagCardinality(calls.inflight) < MaxCalls
    /\ IF cachedIsFresh(cacheMap, cacheKey(venue), now)
       THEN calls' = [calls EXCEPT
                        !.returned = Returned(venue, TRUE, cacheMap[cacheKey(venue)])]
       ELSE calls' = [calls EXCEPT
                        !.inflight = @ (+) SetToBag({
                            [ venue |-> venue,
                              pc |-> IF Truthy(venue, "website", <<>>)
                                     THEN "checkWebsite" ELSE "searchForVenue",
                              websiteValid |-> FALSE,
                              validation |-> NoValue ] })]
    /\ UNCHANGED <<cacheMap, now, queryVars, dedupVars, schedulerVars, serverVars>>

\* checkWebsite resolved: the fetch answered (ok by its status) or failed
\* (caught, false); searchForVenue is awaited
WebsiteChecked(call, ok) ==
    /\ BagIn(call, calls.inflight) /\ call.pc = "checkWebsite"
    /\ calls' = [calls EXCEPT
                   !.inflight = (@ (-) SetToBag({call}))
                                (+) SetToBag({[call EXCEPT !.pc = "searchForVenue",
                                                           !.websiteValid = ok]})]
    /\ UNCHANGED <<cacheMap, now, queryVars, dedupVars, schedulerVars, serverVars>>

\* searchForVenue returned searchResult: aiValidation runs, the result is
\* cached, and the call returns unless the venue is closed, in which case
\* markVenueAsClosed is awaited
AfterSearch(call, searchResult) ==
    /\ BagIn(call, calls.inflight) /\ call.pc = "searchForVenue"
    /\ LET validation == aiValidation(call.venue, call.websiteValid, searchResult, now)
       IN  /\ cacheMap' = cacheSet(cacheMap, cacheKey(call.venue), validation)
           /\ IF ~validation.isValid /\ validation.status = "closed"
              THEN calls' = [calls EXCEPT
                               !.inflight = (@ (-) SetToBag({call}))
                                   (+) SetToBag({[call EXCEPT !.pc = "markVenueAsClosed",
                                                              !.validation = validation]})]
              ELSE calls' = [calls EXCEPT
                               !.inflight = @ (-) SetToBag({call}),
                               !.returned = Returned(call.venue, FALSE, validation)]
    /\ UNCHANGED <<now, queryVars, dedupVars, schedulerVars, serverVars>>

SearchAnswered(call) == \E searchResult \in SearchResults : AfterSearch(call, searchResult)

SearchFailed(call) == AfterSearch(call, SearchFailure)

\* what a validateVenue call that rejected leaves behind
Rejected(venue) ==
    [venue |-> venue, fromCache |-> FALSE, validation |-> NoValue, error |-> "TypeError"]

\* the content of the search completion parsed to null (JSON.parse returns
\* whatever JSON value the text holds): aiValidation reads
\* searchResult.stillOpen of null and throws, validateVenue has no catch and
\* rejects before its cache write
SearchAnsweredNull(call) ==
    /\ BagIn(call, calls.inflight) /\ call.pc = "searchForVenue"
    /\ calls' = [calls EXCEPT !.inflight = @ (-) SetToBag({call}),
                              !.returned = Rejected(call.venue)]
    /\ UNCHANGED <<cacheMap, now, queryVars, dedupVars, schedulerVars, serverVars>>

\* markVenueAsClosed (it only logs) resolved: validateVenue returns
MarkedClosed(call) ==
    /\ BagIn(call, calls.inflight) /\ call.pc = "markVenueAsClosed"
    /\ calls' = [calls EXCEPT !.inflight = @ (-) SetToBag({call}),
                              !.returned = Returned(call.venue, FALSE, call.validation)]
    /\ UNCHANGED <<cacheMap, now, queryVars, dedupVars, schedulerVars, serverVars>>

\* twelve hours pass
Tick ==
    /\ now + 12 <= MaxClock
    /\ now' = now + 12
    /\ UNCHANGED <<cacheMap, calls, queryVars, dedupVars, schedulerVars, serverVars>>

ValidatorInit ==
    /\ ServerIdle
    /\ system = "DualRAGSystem"
    /\ QueryInit
    /\ DedupIdle
    /\ SchedulerIdle
    /\ cacheMap = <<>>
    /\ now = 0
    /\ calls = [inflight |-> EmptyBag, returned |-> NoValue]

ValidatorNext ==
    \/ \E venue \in ValidatorVenues : ValidateVenue(venue)
    \/ \E call \in BagToSet(calls.inflight) :
           \/ \E ok \in BOOLEAN : WebsiteChecked(call, ok)
           \/ SearchAnswered(call)
           \/ SearchFailed(call)
           \/ SearchAnsweredNull(call)
           \/ MarkedClosed(call)
    \/ Tick

SpecValidate == ValidatorInit /\ [][ValidatorNext]_vars

(* VenueValidator.validateVenues: one batch call, its loop position and the *)
(* validateVenue call it awaits are held in calls.                          *)

MaxBatch == 2

UncertainNote == "Status uncertain - verify before visiting"

\* the venue validateVenues pushes for a validation, <<>> when it skips it
pushed(venue, validation) ==
    IF validation.isValid
    THEN << [lastValidated |-> validation.lastChecked,
             validationStatus |-> validation.status]
            @@ validation.updatedInfo @@ venue >>
    ELSE IF validation.status = "uncertain"
    THEN << [specialNotes |-> OrElse(venue, "specialNotes", NoValue, <<>>)
                                  \o <<UncertainNote>>,
             lastValidated |-> validation.lastChecked,
             validationStatus |-> validation.status] @@ venue >>
    ELSE <<>>

Batch(venues) ==
    [ venues |-> venues, i |-> 1, pc |-> "validateVenue", websiteValid |-> FALSE,
      validation |-> NoValue, results |-> <<>>, validatedVenues |-> <<>> ]

\* validateVenue resolved with validation: the loop body runs and the loop
\* goes on to the next venue
batchContinue(batch, validation) ==
    [batch EXCEPT !.validatedVenues = @ \o pushed(batch.venues[batch.i], validation),
                  !.results = Append(@, validation),
                  !.i = @ + 1,
                  !.pc = "validateVenue",
                  !.websiteValid = FALSE,
                  !.validation = NoValue]

\* the loop calls validateVenue for the next venue: a fresh cache entry is
\* returned, else the call runs up to its first await
BatchValidateVenue ==
    /\ calls.pc = "validateVenue" /\ calls.i <= Len(calls.venues)
    /\ LET venue == calls.venues[calls.i] IN
       IF cachedIsFresh(cacheMap, cacheKey(venue), now)
       THEN calls' = batchContinue(calls, cacheMap[cacheKey(venue)])
       ELSE calls' = [calls EXCEPT !.pc = IF Truthy(venue, "website", <<>>)
                                          THEN "checkWebsite" ELSE "searchForVenue"]
    /\ UNCHANGED <<cacheMap, now, queryVars, dedupVars, schedulerVars, serverVars>>

BatchWebsiteChecked(ok) ==
    /\ calls.pc = "checkWebsite"
    /\ calls' = [calls EXCEPT !.pc = "searchForVenue", !.websiteValid = ok]
    /\ UNCHANGED <<cacheMap, now, queryVars, dedupVars, schedulerVars, serverVars>>

\* searchForVenue returned an object: aiValidation, the cache write, and
\* either the await of markVenueAsClosed or the return to the loop
BatchAfterSearch(searchResult) ==
    /\ calls.pc = "searchForVenue"
    /\ LET venue == calls.venues[calls.i]
           validation == aiValidation(venue, calls.websiteValid, searchResult, now)
       IN  /\ cacheMap' = cacheSet(cacheMap, cacheKey(venue), validation)
           /\ IF ~validation.isValid /\ validation.status = "closed"
              THEN calls' = [calls EXCEPT !.pc = "markVenueAsClosed",
                                          !.validation = validation]
              ELSE calls' = batchContinue(calls, validation)
    /\ UNCHANGED <<now, queryVars, dedupVars, schedulerVars, serverVars>>

BatchSearchAnswered == \E searchResult \in SearchResults : BatchAfterSearch(searchResult)

BatchSearchFailed == BatchAfterSearch(SearchFailure)

\* variant: the loop catches the rejection and goes on with the next venue
BatchSearchAnsweredNullIsolated ==
    /\ calls.pc = "searchForVenue"
    /\ calls' = [calls EXCEPT !.results = Append(@, NoValue), !.i = @ + 1,
                              !.pc = "validateVenue", !.websiteValid = FALSE]
    /\ UNCHANGED <<cacheMap, now, queryVars, dedupVars, schedulerVars, serverVars>>

\* searchForVenue returned null: aiValidation throws, validateVenue rejects,
\* and validateVenues, whose loop has no try/catch, rejects with it
BatchSearchAnsweredNull ==
    /\ calls.pc = "searchForVenue"
    /\ calls' = [calls EXCEPT !.results = Append(@, NoValue), !.pc = "rejected"]
    /\ UNCHANGED <<cacheMap, now, queryVars, dedupVars, schedulerVars, serverVars>>

BatchMarkedClosed ==
    /\ calls.pc = "markVenueAsClosed"
    /\ calls' = batchContinue(calls, calls.validation)
    /\ UNCHANGED <<cacheMap, now, queryVars, dedupVars, schedulerVars, serverVars>>

\* the loop is over: validateVenues returns validatedVenues
BatchReturn ==
    /\ calls.pc = "validateVenue" /\ calls.i > Len(calls.venues)
    /\ calls' = [calls EXCEPT !.pc = "resolved"]
    /\ UNCHANGED <<cacheMap, now, queryVars, dedupVars, schedulerVars, serverVars>>

BatchInit ==
    /\ ServerIdle
    /\ system = "DualRAGSystem"
    /\ QueryInit
    /\ DedupIdle
    /\ SchedulerIdle
    /\ cacheMap = <<>>
    /\ now = 0
    /\ \E venues \in SeqsUpTo(ValidatorVenues, MaxBatch) : calls = Batch(venues)

BatchNext ==
    \/ BatchValidateVenue
    \/ \E ok \in BOOLEAN : BatchWebsiteChecked(ok)
    \/ BatchSearchAnswered
    \/ BatchSearchFailed
    \/ BatchSearchAnsweredNull
    \/ BatchMarkedClosed
    \/ BatchReturn

SpecBatch == BatchInit /\ [][BatchNext]_vars

-----------------------------------------------------------------------------
(* IntentExtractor.extractIntent as a function of the retrieved phrase      *)
(* patterns and of the completion's reply: the request task is taken up at  *)
(* the await of extractWithAI, for every ranking the index can return over  *)
(* a phrase collection.  The collection is external data: mapsTo is stored  *)
(* as JSON text and parsed unchecked, so it may hold any intent field.      *)

ExtractCorpus ==
    LanguageCorpus \cup
    { languageMetadata([ id |-> <<"l", 3>>, intent |-> "destination_expression",
                         phrases |-> << <<"q">>, <<"z">> >>, confidence |-> 70,
                         mapsTo |-> [destination |-> Berlin, pace |-> "relaxed"] ]) }

ExtractInit ==
    /\ ServerIdle
    /\ system = "DualRAGSystem"
    /\ index = SuccessCorpus \cup ExtractCorpus
    /\ pc = "ai"
    /\ userMessage \in Messages
    /\ \E ms \in indexQuery(ExtractCorpus, languageFilter, languageTopK) :
           /\ langMatches = ms
           /\ languagePatterns = queryLanguagePatterns(ms)
    /\ aiIntent = NoValue /\ intent = NoValue
    /\ matches = <<>> /\ successPatterns = <<>>
    /\ response = NoValue /\ outcome = "pending" /\ thrownAt = "none"
    /\ learningEnabled = TRUE
    /\ searchIntent = NoValue /\ newVenues = <<>> /\ finalResponse = NoValue
    /\ DedupIdle
    /\ SchedulerIdle
    /\ ValidatorIdle

ExtractNext == AIRespond \/ AIFail

SpecExtract == ExtractInit /\ [][ExtractNext]_vars

-----------------------------------------------------------------------------
(* The Express server  src/src/server.ts                                    *)
(*                                                                         *)
(* server holds the module variable ragSystem, the handlers that are       *)
(* parked on an await, the responses sent and, for every call of           *)
(* rag.query, the state of the instance's initialize() when it was called. *)
(* DualRAGSystem.initialize and CloudVectorStore.initialize await no I/O:  *)
(* a pending initialize() settles within the turn that called it, before   *)
(* the next request is delivered.  A query on an instance whose index was  *)
(* never set throws at this.index.query, so it can only reject.            *)

MaxRequests == 3

Index == [indexName |-> "syncwithme-travel-rag"]

\* new DualRAGSystem(): the vector store's index is not set yet
NewDualRAGSystem == [index |-> NoValue, initialize |-> "not called"]

\* initializeRAG up to its await, or to its return when ragSystem is set
initializeRAG(ragSystem) ==
    IF ragSystem = JSNull
    THEN [ragSystem |-> [NewDualRAGSystem EXCEPT !.initialize = "pending"],
          awaiting |-> TRUE]
    ELSE [ragSystem |-> ragSystem, awaiting |-> FALSE]

\* the /api/rag/query handlers hs after `const rag = await initializeRAG()`:
\* 400 without a userMessage, else rag.query(request) is called and awaited
afterInitializeRAG(s, hs) ==
    [s EXCEPT
       !.responses = @ \cup {[id |-> h.id, status |-> 400] : h \in {g \in hs : ~g.userMessage}},
       !.handlers = @ \cup {[h EXCEPT !.pc = "query"] : h \in {g \in hs : g.userMessage}},
       !.queried = @ \cup {[id |-> h.id, initialize |-> s.ragSystem.initialize] :
                              h \in {g \in hs : g.userMessage}}]

Parked(s) == {h \in s.handlers : h.pc = "initialize" /\ h.route = "query"}

InitializePending == server.ragSystem # JSNull /\ server.ragSystem.initialize = "pending"

\* start(): app.listen, then initializeRAG() in the background
ServerStart ==
    /\ ~server.listening
    /\ LET r == initializeRAG(server.ragSystem)
       IN  server' = [server EXCEPT
                        !.listening = TRUE,
                        !.ragSystem = r.ragSystem,
                        !.handlers = IF r.awaiting
                                     THEN {[id |-> 0, route |-> "start", userMessage |-> FALSE,
                                            pc |-> "initialize"]}
                                     ELSE {}]
    /\ UNCHANGED <<queryVars, dedupVars, schedulerVars, validatorVars>>

\* ragSystem.initialize() resolves: the index is set, every initializeRAG
\* parked on it returns ragSystem
InitializeResolved ==
    /\ InitializePending
    /\ server' = afterInitializeRAG(
                     [server EXCEPT !.ragSystem = [index |-> Index, initialize |-> "resolved"],
                                    !.handlers = {h \in @ : h.pc # "initialize"}],
                     Parked(server))
    /\ UNCHANGED <<queryVars, dedupVars, schedulerVars, validatorVars>>

\* ragSystem.initialize() rejects: ragSystem keeps the instance; start's
\* catch logs, a parked request answers 500
InitializeRejected ==
    /\ InitializePending
    /\ server' = [server EXCEPT
                    !.ragSystem = [index |-> NoValue, initialize |-> "rejected"],
                    !.handlers = {h \in @ : h.pc # "initialize"},
                    !.responses = @ \cup {[id |-> h.id, status |-> 500] : h \in Parked(server)}]
    /\ UNCHANGED <<queryVars, dedupVars, schedulerVars, validatorVars>>

\* POST /api/rag/query arrives; userMessage tells whether the body has one
PostQuery(hasUserMessage) ==
    /\ server.listening
    /\ ~InitializePending
    /\ server.arrived < MaxRequests
    /\ LET r == initializeRAG(server.ragSystem)
           h == [id |-> server.arrived + 1, route |-> "query",
                 userMessage |-> hasUserMessage, pc |-> "initialize"]
           s == [server EXCEPT !.arrived = @ + 1, !.ragSystem = r.ragSystem]
       IN  server' = IF r.awaiting
                     THEN [s EXCEPT !.handlers = @ \cup {h}]
                     ELSE afterInitializeRAG(s, {h})
    /\ UNCHANGED <<queryVars, dedupVars, schedulerVars, validatorVars>>

\* rag.query resolves: res.json(response)
QueryResolved(h) ==
    /\ h \in server.handlers /\ h.pc = "query"
    /\ server.ragSystem.index # NoValue
    /\ server' = [server EXCEPT !.handlers = @ \ {h},
                                !.responses = @ \cup {[id |-> h.id, status |-> 200]}]
    /\ UNCHANGED <<queryVars, dedupVars, schedulerVars, validatorVars>>

\* rag.query rejects: the handler's catch answers 500
QueryRejected(h) ==
    /\ h \in server.handlers /\ h.pc = "query"
    /\ server' = [server EXCEPT !.handlers = @ \ {h},
                                !.responses = @ \cup {[id |-> h.id, status |-> 500]}]
    /\ UNCHANGED <<queryVars, dedupVars, schedulerVars, validatorVars>>

\* the module was loaded, start() has not run yet
ServerInit ==
    /\ system = "DualRAGSystem"
    /\ QueryInit
    /\ DedupIdle
    /\ SchedulerIdle
    /\ ValidatorIdle
    /\ server = [listening |-> FALSE, ragSystem |-> JSNull, arrived |-> 0,
                 handlers |-> {}, responses |-> {}, queried |-> {}]

ServerNext ==
    \/ ServerStart
    \/ InitializeResolved
    \/ InitializeRejected
    \/ \E hasUserMessage \in BOOLEAN : PostQuery(hasUserMessage)
    \/ \E h \in server.handlers : QueryResolved(h)
    \/ \E h \in server.handlers : QueryRejected(h)

SpecServer == ServerInit /\ [][ServerNext]_vars

-----------------------------------------------------------------------------
(* DayPlanner.matchesBudget as a function of the activity's price string    *)
(* and of the budget tier.                                                  *)

BudgetPrices ==
    { <<>>, <<"f", "r", "e", "e">>, <<"F", "r", "e", "e">>, <<"f", "r", "e", "e", " ", "e", "n", "t", "r", "y">>, <<"b", "u", "d", "g", "e", "t">>, <<"B", "u", "d", "g", "e", "t">>, <<"l", "u", "x", "u", "r", "y">>,
      <<"€", "5">>, <<"€", "8">>, <<"€", "1", "0">>, <<"€", "1", "2">>, <<"€", "1", "5">>, <<"€", "2", "0">>, <<"€", "5", "0">>, <<"€", "5", "5">>,
      <<"€", "1", "0", "0">>, <<"€", "1", "5", "0">>, <<"€", "2", "0", "0">>, <<"€", "1", "0", "0", "+">>, <<"€", "5", "-", "1", "0">>, <<"€", "5", "0", "-", "1", "0", "0">>,
      <<"f", "r", "o", "m", " ", "€", "1", "0">>, <<"l", "u", "x", "u", "r", "y", ",", " ", "f", "r", "e", "e", " ", "b", "a", "r">>, <<"€", "1", "0", "0", "0">> }

BudgetInit ==
    /\ ServerIdle
    /\ system = "DualRAGSystem"
    /\ QueryInit
    /\ DedupIdle
    /\ ValidatorIdle
    /\ planArgs = NoValue /\ plan = NoValue
    /\ isOpenArgs = NoValue /\ isOpenResult = NoValue
    /\ matchesBudgetArgs \in [ activity : {Activity(<<"b", "a", "r">>, <<"c", "l", "u", "b">>, <<"m", "i", "t", "t", "e", " ", "1">>, 60, price) :
                                              price \in BudgetPrices},
                               budget : {"low", "medium", "high"} ]
    /\ matchesBudgetResult = NoValue

CallMatchesBudget ==
    /\ matchesBudgetArgs # NoValue
    /\ matchesBudgetResult = NoValue
    /\ matchesBudgetResult' = [value |-> matchesBudget(matchesBudgetArgs.activity,
                                                       matchesBudgetArgs.budget)]
    /\ UNCHANGED <<planArgs, plan, isOpenArgs, isOpenResult, matchesBudgetArgs,
                   queryVars, dedupVars, validatorVars, serverVars>>

SpecBudget == BudgetInit /\ [][CallMatchesBudget]_vars

-----------------------------------------------------------------------------
(* Claims *)

Responded == pc \in {"done", "returned"} /\ outcome = "response"

ExtractIntentSites ==
    { "queryLanguagePatterns.embedQuery", "queryLanguagePatterns.indexQuery",
      "queryLanguagePatterns.parse", "mergeIntents" }
RetrievalSites ==
    { "querySuccessPatterns.embedQuery", "querySuccessPatterns.indexQuery",
      "querySuccessPatterns.parse" }

\* C1: extractIntent never throws: no query is rejected by an exception raised
\* inside extractIntent (the phrase lookup, the completion call, the merge).
C1_ExtractIntentNeverThrows == thrownAt \notin ExtractIntentSites

\* C2: a query ends either with a complete response or with a hard error; a
\* failed success-pattern retrieval always gives the hard error and it is the
\* only kind of failure that rejects the query.
C2_OnlyRetrievalFailureRejects ==
    /\ outcome = "error" => thrownAt \in RetrievalSites /\ response = NoValue
    /\ thrownAt \in RetrievalSites => outcome = "error" /\ response = NoValue
    /\ outcome = "response" =>
           /\ thrownAt = "none"
           /\ DOMAIN response = {"intent", "recommendations", "confidence", "sources"}

\* C3: the intent returned by mergeIntents has 0.5 <= confidence <= 1.0,
\* whatever the AI guess reports and whatever phrase patterns were retrieved.
C3_IntentConfidenceInRange ==
    intent # NoValue => intent.confidence >= 50 /\ intent.confidence <= 100

\* C4: no success pattern is returned with a score below
\* CONFIG.rag.confidenceThreshold and no phrase pattern with a score below the
\* phrase threshold, whatever list of hits the index returned.
C4_ThresholdsRespected ==
    /\ \A k \in 1..Len(successPatterns) :
           successPatterns[k].confidence >= confidenceThreshold
    /\ \A k \in 1..Len(languagePatterns) :
           languagePatterns[k].confidence >= languageThreshold

C4_Witness ==
    /\ successPatterns # <<>>
    /\ \E k \in 1..Len(matches) : matches[k].score < confidenceThreshold
    /\ languagePatterns # <<>>
    /\ \E k \in 1..Len(langMatches) : langMatches[k].score < languageThreshold

\* the venues of a list that no earlier venue of the list equals in both
\* lower-cased name and type
SamePair(v, w) == toLowerCase(v.name) = toLowerCase(w.name) /\ v.type = w.type
FirstOfPair(venues, k) == \A j \in 1..(k - 1) : ~SamePair(venues[j], venues[k])
RECURSIVE PickFirsts(_, _)
PickFirsts(venues, k) ==
    IF k > Len(venues) THEN <<>>
    ELSE (IF FirstOfPair(venues, k) THEN <<venues[k]>> ELSE <<>>)
         \o PickFirsts(venues, k + 1)
DedupByPair(venues) == PickFirsts(venues, 1)

\* C5: deduplicateVenues drops a venue if and only if an earlier venue of the
\* list has the same lower-cased name and exactly the same type.
C5_DropsExactlySamePair ==
    (venuesIn # <<>> /\ venuesOut # <<>>) => venuesOut = DedupByPair(venuesIn)

NoRepeatedPair(venues) ==
    \A j, k \in 1..Len(venues) : j # k => ~SamePair(venues[j], venues[k])

\* C6: with a non-empty pattern list the venues are the first 5, and the
\* alternatives the next 3, of the first-occurrence-wins deduplication by
\* (lower-cased name, type) of the venues of the first 3 patterns; a venue found
\* only in a later pattern never appears; no pair occurs twice in the two lists.
C6_TopOfFirstThreePatterns ==
    (Responded /\ successPatterns # <<>>) =>
        LET firstThree == SubSeq(successPatterns, 1, Min(3, Len(successPatterns)))
            unique == DedupByPair(flattenVenues(firstThree))
            rec == response.recommendations
        IN  /\ rec.venues = SubSeq(unique, 1, Min(5, Len(unique)))
            /\ rec.alternatives = SubSeq(unique, 6, Min(8, Len(unique)))
            /\ Range(rec.venues \o rec.alternatives) \subseteq Range(flattenVenues(firstThree))
            /\ NoRepeatedPair(rec.venues \o rec.alternatives)

NoRepeatedTip(tips) == \A j, k \in 1..Len(tips) : j # k => tips[j] # tips[k]

\* C7: every response of a query path has at most 5 venues without a repeated
\* (lower-cased name, type) pair, at most 3 alternatives, and at most 5
\* localTips without a repeated tip.
C7_RecommendationBounds ==
    finalResponse # NoValue =>
        LET rec == finalResponse.recommendations IN
        /\ Len(rec.venues) <= 5 /\ NoRepeatedPair(rec.venues)
        /\ Len(rec.alternatives) <= 3
        /\ Len(rec.localTips) <= 5 /\ NoRepeatedTip(rec.localTips)

BudgetTable ==
    [ t \in {"low", "medium", "high", "luxury"} |->
        IF t = "low" THEN "€5-20" ELSE IF t = "medium" THEN "€20-50"
        ELSE IF t = "high" THEN "€50-100" ELSE "€100+" ]

\* C8: when no pattern was retrieved the recommendation is the fallback: one
\* venue named "Top <first interest or attraction> in <destination>", priced
\* by the budget table, confidence exactly 0.3, no alternatives, and a
\* reasoning saying that there is no success pattern for the destination.
C8_FallbackShape ==
    (Responded /\ successPatterns = <<>>) =>
        LET rec == response.recommendations
            what == IF intent.interests = <<>> THEN "attraction" ELSE intent.interests[1]
        IN  /\ Len(rec.venues) = 1
            /\ rec.venues[1].name = <<"Top ", what, " in ">> \o intent.destination
            /\ rec.venues[1].type = <<what>>
            /\ intent.budgetTier \in DOMAIN BudgetTable =>
                   rec.venues[1].priceRange = BudgetTable[intent.budgetTier]
            /\ rec.confidence.n * 1 = 30 * rec.confidence.d
            /\ rec.alternatives = <<>>
            /\ SubSeq(rec.reasoning, 1, 1 + Len(intent.destination))
                   = <<"I don't have specific success patterns for ">> \o intent.destination

C8_Witness ==
    /\ Responded /\ successPatterns = <<>>
    /\ intent.budgetTier = "luxury" /\ intent.destination = <<"z">>
    /\ response.recommendations.venues[1].priceRange = "€100+"

SaysNoPattern(rec) ==
    rec.reasoning # <<>> /\ rec.reasoning[1] = "I don't have specific success patterns for "

C10_AtLeastHalfWithAnyPattern ==
    (Responded /\ successPatterns # <<>>) => FracGE(response.confidence, Frac(50, 1))

\* C10 amended: whenever at least one success pattern is retrieved and the
\* recommendation holds at least one venue, the overall confidence is at
\* least 0.5.
C10_AtLeastHalfWithVenues ==
    (Responded /\ successPatterns # <<>> /\ response.recommendations.venues # <<>>)
        => FracGE(response.confidence, Frac(50, 1))

C10_Witness ==
    /\ Responded
    /\ Len(successPatterns) = 1 /\ successPatterns[1].confidence = 60
    /\ intent.confidence = 50
    /\ Len(response.recommendations.venues) = 1

\* C11: the response confidence equals 0.3*intent.confidence + 0.4*P + 0.3*R,
\* where P is the mean score of the retrieved patterns (0.3 when there are
\* none) and R, the recommendation confidence, is
\* min(P + min(venueCount/5, 1)*0.2, 1.0), or 0.3 when there are no patterns
\* or no venues; it is a function of these inputs alone, and lies in [0,1]
\* when the intent confidence does.  Stated in hundredths over the common
\* denominator 10*n, n the number of patterns.
C11_ConfidenceFormula ==
    Responded =>
        LET n == Len(successPatterns)
            S == SumConfidence(successPatterns)
            c == intent.confidence
            venueCount == Len(response.recommendations.venues)
            bonus == 4 * Min(venueCount, 5)
            R == IF n = 0 \/ venueCount = 0 THEN Frac(30, 1)
                 ELSE Frac(Min(S + bonus * n, 100 * n), n)
            P == IF n = 0 THEN Frac(30, 1) ELSE Frac(S, n)
            claimed == Frac(3 * c * P.d + 4 * P.n + 3 * R.n, 10 * P.d)
        IN  /\ FracEq(response.recommendations.confidence, R)
            /\ FracEq(response.confidence, claimed)
            /\ c \in 0..100 =>
                   /\ FracGE(response.confidence, Frac(0, 1))
                   /\ FracLE(response.confidence, Frac(100, 1))

C11_Witness ==
    /\ Responded
    /\ Len(successPatterns) = 2
    /\ successPatterns[1].confidence = 90 /\ successPatterns[2].confidence = 60
    /\ Len(response.recommendations.venues) = 4
    /\ intent.confidence = 90

\* C12: when the completion call that generates the reasoning fails (the
\* await of generateContextualResponse ends otherwise than by a resolved
\* completion), the query still resolves with a response: its venues,
\* alternatives, localTips and confidences are those of a successful call, its
\* reasoning is the fixed fallback sentence, and no error reaches the caller.
C12_ReasoningFailureRecovered ==
    [][(pc = "reasoning" /\ ~ReasoningOk) =>
          /\ pc' = "done" /\ outcome' = "response" /\ thrownAt' = "none"
          /\ response'.recommendations.reasoning =
                 <<"These recommendations are based on successful patterns from similar travelers.">>
          /\ \A text \in CompletionTexts :
                 LET ok == buildResponse(intent, successPatterns,
                                         generateRecommendations(successPatterns, text))
                     rec == response'.recommendations
                 IN  /\ rec.venues = ok.recommendations.venues
                     /\ rec.alternatives = ok.recommendations.alternatives
                     /\ rec.localTips = ok.recommendations.localTips
                     /\ rec.confidence = ok.recommendations.confidence
                     /\ response'.confidence = ok.confidence
                     /\ response'.sources = ok.sources]_vars

C12_Witness ==
    /\ Responded
    /\ response.recommendations.reasoning = ReasoningOnFailure
    /\ response.recommendations.alternatives # <<>>
    /\ response.recommendations.localTips # <<>>

PlanMade == plan # NoValue

\* a slot built by createTimeSlot carries tips; the fixed bookings of the
\* model carry none
IsGenerated(slot) == Has(slot, "tips")

GeneratedIn(slots) == {i \in 1..Len(slots) : IsGenerated(slots[i])}

BookingTimes == {planArgs.fixedBookings[b].time : b \in 1..Len(planArgs.fixedBookings)}

NoTwoSlotsSameTime(slots) ==
    \A i, j \in 1..Len(slots) : i # j => slots[i].time # slots[j].time

C14_FixedBookingsKept ==
    PlanMade =>
        LET slots == plan.slots
            fixed == planArgs.fixedBookings
        IN  /\ \A b \in 1..Len(fixed) :
                   \E i \in 1..Len(slots) :
                       /\ ~IsGenerated(slots[i])
                       /\ slots[i].time = fixed[b].time
                       /\ slots[i].activity = fixed[b].activity
            /\ Len(slots) - Cardinality(GeneratedIn(slots)) = Len(fixed)
            /\ \A i \in GeneratedIn(slots) : slots[i].time \notin BookingTimes
            /\ (planArgs.preferences.pace = "relaxed" /\ <<"0", "9", ":", "3", "0">> \in BookingTimes) =>
                   \A i \in GeneratedIn(slots) : timeToMinutes(slots[i].time) > 9 * 60 + 30

C14_Witness ==
    /\ PlanMade
    /\ planArgs.preferences.pace = "relaxed"
    /\ Len(planArgs.fixedBookings) = 1 /\ BookingTimes = { <<"0", "9", ":", "3", "0">> }
    /\ \E i \in GeneratedIn(plan.slots) : plan.slots[i].time = <<"1", "1", ":", "0", "0">>
    /\ \E a \in Range(planArgs.availableActivities) :
           suitableFor(<<"b", "r", "e", "a", "k", "f", "a", "s", "t">>, <<a>>, planArgs.preferences, plan.dayOfWeek,
                       <<"0", "9", ":", "3", "0">>) # <<>>

\* C15: within one plan each available activity is placed in at most one
\* generated slot.
C15_ActivityPlacedAtMostOnce ==
    PlanMade =>
        \A i, j \in GeneratedIn(plan.slots) :
            i # j => plan.slots[i].activity # plan.slots[j].activity

\* C16: the slots of the returned plan are sorted by time of day: each slot's
\* time in minutes is at most that of the slot after it.
C16_SlotsSortedByTime ==
    PlanMade =>
        \A i \in 1..(Len(plan.slots) - 1) :
            timeToMinutes(plan.slots[i].time) <= timeToMinutes(plan.slots[i + 1].time)

C16_Witness ==
    /\ PlanMade
    /\ planArgs.preferences.pace = "intensive"
    /\ Len(planArgs.fixedBookings) = 2
    /\ Len(plan.slots) >= 5
    /\ IsGenerated(plan.slots[1]) /\ plan.slots[1].time = <<"0", "2", ":", "0", "0">>

C18_FlagshipClosedOnMonday ==
    (PlanMade /\ plan.dayOfWeek = "Monday") =>
        \A i \in GeneratedIn(plan.slots) :
            ~includes(toLowerCase(plan.slots[i].activity.name), <<"b", "e", "r", "g", "h", "a", "i", "n">>)

C18_Witness ==
    /\ PlanMade /\ plan.dayOfWeek = "Monday"
    /\ Len(planArgs.availableActivities) = 2
    /\ planArgs.availableActivities[1] = Berghain
    /\ GeneratedIn(plan.slots) # {}

\* C19: a template slot for which no available activity passes the type,
\* opening-hours and budget filters is left out of the plan, which is still
\* returned; a template slot whose time is free and for which some activity
\* passes is filled; the times of the generated slots are times of the
\* pace template.
C19_PlacementMissOmitsSlot ==
    PlanMade =>
        LET schedule == getScheduleTemplate(planArgs.preferences.pace)
            slots == plan.slots
        IN  /\ \A i \in GeneratedIn(slots) :
                   \E k \in 1..Len(schedule) : schedule[k].time = slots[i].time
            /\ \A k \in 1..Len(schedule) :
                   schedule[k].time \notin BookingTimes =>
                       ((\E i \in GeneratedIn(slots) : slots[i].time = schedule[k].time)
                        <=> \E a \in Range(planArgs.availableActivities) :
                               /\ matchesSlotType(schedule[k].type, a)
                               /\ isOpenAt(a, schedule[k].time, plan.dayOfWeek)
                               /\ matchesBudget(a, planArgs.preferences.budget))

C19_Witness ==
    /\ PlanMade
    /\ planArgs.fixedBookings = <<>>
    /\ planArgs.preferences.pace = "moderate"
    /\ Len(planArgs.availableActivities) = 2
    /\ Len(plan.slots) \in 1..7

CompleteValidation(validation) ==
    /\ DOMAIN validation
           = {"venue", "isValid", "status", "lastChecked", "confidence", "updatedInfo"}
    /\ validation.venue \in ValidatorVenues
    /\ validation.isValid \in BOOLEAN
    /\ validation.status \in {"open", "closed", "uncertain", "moved"}
    /\ validation.lastChecked.iso \in 0..MaxClock
    /\ validation.confidence \in 0..100

\* the step in which `call` passes its cache write
WritesCache(call) ==
    /\ call.pc = "searchForVenue"
    /\ CopiesIn(call, calls'.inflight) = CopiesIn(call, calls.inflight) - 1

\* C21: under every interleaving of validateVenue calls (suspended at the
\* website fetch, the completion call and markVenueAsClosed), every call
\* returns a complete validation result; the cache changes only in the step
\* where a call writes, and after that step the one entry of the call's key
\* equals the result this call returns, whatever was there before: the entry
\* is always the result of the call that wrote last.
C21_LastWriteWins ==
    [][/\ calls'.returned # NoValue =>
              /\ CompleteValidation(calls'.returned.validation)
              /\ cacheKey(calls'.returned.validation.venue) = cacheKey(calls'.returned.venue)
       /\ \A key \in DOMAIN cacheMap' : CompleteValidation(cacheMap'[key])
       /\ cacheMap' # cacheMap => \E call \in BagToSet(calls.inflight) : WritesCache(call)
       /\ \A call \in BagToSet(calls.inflight) :
              WritesCache(call) =>
                  LET key == cacheKey(call.venue)
                      written == cacheMap'[key]
                  IN  /\ DOMAIN cacheMap' = DOMAIN cacheMap \cup {key}
                      /\ \A other \in DOMAIN cacheMap \ {key} :
                             cacheMap'[other] = cacheMap[other]
                      /\ written.venue = call.venue
                      /\ written.lastChecked = toISOString(now)
                      /\ \/ calls'.returned = Returned(call.venue, FALSE, written)
                         \/ /\ calls'.returned = calls.returned
                            /\ \E closing \in BagToSet(calls'.inflight) :
                                   /\ closing.pc = "markVenueAsClosed"
                                   /\ closing.venue = call.venue
                                   /\ closing.validation = written
                                   /\ CopiesIn(closing, calls'.inflight)
                                          = CopiesIn(closing, calls.inflight) + 1]_vars

BatchEnded == calls.pc \in {"resolved", "rejected"}

\* what the caller of validateVenues receives: nothing from a rejected call
BatchReturned == IF calls.pc = "resolved" THEN calls.validatedVenues ELSE <<>>

\* C22: when a validateVenues call has ended, every venue of the batch whose
\* own validation did not fail has been validated, and the returned list
\* holds its entry exactly when its own result is valid or uncertain.
C22_FailureDoesNotAbortBatch ==
    BatchEnded =>
        \A j \in 1..Len(calls.venues) :
            \/ j <= Len(calls.results) /\ calls.results[j] = NoValue
            \/ /\ j <= Len(calls.results)
               /\ \A entry \in Range(pushed(calls.venues[j], calls.results[j])) :
                      entry \in Range(BatchReturned)
               /\ pushed(calls.venues[j], calls.results[j]) = <<>> =>
                      \A entry \in Range(BatchReturned) : entry.name # calls.venues[j].name

\* C23: no step of a query changes the vector index (the corpus): neither
\* DualRAGSystem.query nor SelfLearningRAG.query issues an upsert.
C23_QueryNeverMutatesCorpus == [][index' = index]_vars

\* s can be obtained from t by deleting elements
RECURSIVE IsSubsequence(_, _)
IsSubsequence(s, t) ==
    IF s = <<>> THEN TRUE
    ELSE IF t = <<>> THEN FALSE
    ELSE IF s[1] = t[1] THEN IsSubsequence(Tail(s), Tail(t))
    ELSE IsSubsequence(s, Tail(t))

\* C24: deduplicateVenues applied to its own output returns that output
\* unchanged, and its output lists surviving venues in the relative order
\* they had in the input.
C24_DedupIdempotentAndStable ==
    venuesOut # <<>> =>
        /\ venuesOut = deduplicateVenues(venuesIn)
        /\ deduplicateVenues(venuesOut) = venuesOut
        /\ IsSubsequence(venuesOut, venuesIn)

C24_Witness ==
    /\ Len(venuesOut) >= 2
    /\ Len(venuesOut) < Len(venuesIn)
    /\ venuesIn[Len(venuesIn)] \notin Range(venuesOut)

\* the retrieved phrase patterns with a stored phrase inside the lower-cased
\* message
MatchingPatterns ==
    { i \in 1..Len(languagePatterns) :
        \E j \in 1..Len(languagePatterns[i].content.phrases) :
            includes(toLowerCase(userMessage),
                     toLowerCase(languagePatterns[i].content.phrases[j])) }

ScalarFields == {"destination", "budgetTier", "groupType", "pace"}

\* the JavaScript-falsy value of a scalar field (empty string)
NoText(field) == IF field = "destination" THEN <<>> ELSE ""

ScalarDefault(field) ==
    CASE field = "destination" -> <<>>
      [] field = "budgetTier" -> "medium"
      [] field = "groupType" -> "solo"
      [] field = "pace" -> "moderate"

\* the values the matching patterns map the field to
SuppliedByPatterns(field) ==
    { languagePatterns[i].content.mapsTo[field] :
        i \in { k \in MatchingPatterns :
                  Truthy(languagePatterns[k].content.mapsTo, field, NoText(field)) } }

\* the claimed rule for one scalar field
ScalarPreferred(field) ==
    IF SuppliedByPatterns(field) # {}
    THEN intent[field] \in SuppliedByPatterns(field)
    ELSE IF Truthy(aiIntent, field, NoText(field))
    THEN intent[field] = aiIntent[field]
    ELSE intent[field] = ScalarDefault(field)

\* C25: once the intents are merged, each of destination, budgetTier,
\* groupType and pace holds a value the matching phrase patterns supplied if
\* they supplied one, else the AI guess if there is one, else the default.
C25_ScalarsPreferPatternValue ==
    pc = "sp_embed" => \A field \in ScalarFields : ScalarPreferred(field)

\* the same rule without the destination
C25_OtherScalarsPreferPatternValue ==
    pc = "sp_embed" => \A field \in ScalarFields \ {"destination"} : ScalarPreferred(field)

\* the largest of a set of confidences, 0 for the empty set
MaxOf(S) == IF S = {} THEN 0 ELSE CHOOSE x \in S : \A y \in S : y <= x

\* C26: the pattern confidence computed by extractFromPatterns is the largest
\* stored confidence (content.confidence) among the retrieved patterns with a
\* matching phrase, 0 when there is none, and a pattern without a matching
\* phrase contributes no field of its mapsTo.
C26_PatternConfidenceIsStoredMax ==
    pc = "sp_embed" =>
        LET patternIntent == extractFromPatterns(userMessage, languagePatterns) IN
        /\ patternIntent.confidence
               = MaxOf({languagePatterns[i].content.confidence : i \in MatchingPatterns})
        /\ \A field \in DOMAIN patternIntent \ {"confidence"} :
               \E i \in MatchingPatterns : Has(languagePatterns[i].content.mapsTo, field)

\* the same with the confidence of the retrieval result (the similarity score
\* of the match) in place of the stored confidence
C26_PatternConfidenceIsScoreMax ==
    pc = "sp_embed" =>
        LET patternIntent == extractFromPatterns(userMessage, languagePatterns) IN
        /\ patternIntent.confidence
               = MaxOf({languagePatterns[i].confidence : i \in MatchingPatterns})
        /\ \A field \in DOMAIN patternIntent \ {"confidence"} :
               \E i \in MatchingPatterns : Has(languagePatterns[i].content.mapsTo, field)

\* the stored success patterns the index returned in this step
Matched(r) == \E i \in 1..Len(matches') : matches'[i].metadata = r

\* the stored success patterns that pass the budget filter of the query
BudgetCandidates ==
    {r \in index : r.type = "success_pattern" /\ r.budgetTier = intent.budgetTier}

\* C27: when the index answers querySuccessPatterns, a success pattern stored
\* by upsertSuccessPatterns with destination D is among the matches if and
\* only if the filter destination D' is empty or lowercase(D) = lowercase(D').
C27_DestinationFilterCaseNormalized ==
    [][PatternIndexOk =>
           \A r \in BudgetCandidates :
               Matched(r) <=> \/ intent.destination = <<>>
                              \/ toLowerCase(r.destination) = toLowerCase(intent.destination)]_vars

\* the same with the stored destination compared as it was stored
C27_DestinationFilterLowersQueryOnly ==
    [][PatternIndexOk =>
           \A r \in BudgetCandidates :
               Matched(r) <=> \/ intent.destination = <<>>
                              \/ r.destination = toLowerCase(intent.destination)]_vars

\* the pair of slots i - 1 and i of the plan overruns
Overruns(i) ==
    timeToMinutes(plan.slots[i - 1].time) + plan.slots[i - 1].activity.duration
        + plan.slots[i].travelTime
    > timeToMinutes(plan.slots[i].time)

RECURSIVE ExpectedTightWarnings(_)
ExpectedTightWarnings(i) ==
    IF i > Len(plan.slots) THEN <<>>
    ELSE (IF Overruns(i)
          THEN << <<"Tight timing between ", plan.slots[i - 1].activity.name, " and ",
                    plan.slots[i].activity.name>> >>
          ELSE <<>>)
         \o ExpectedTightWarnings(i + 1)

TightWarnings == SelectSeq(plan.warnings, LAMBDA w : w[1] = "Tight timing between ")

\* C28: every slot after the first carries the travel time computed from the
\* distance to the slot just before it, and the plan's 'Tight timing'
\* warnings are, in order, exactly those of the consecutive pairs whose
\* earlier start plus duration plus the later slot's travel time exceeds the
\* later start.
C28_TightTimingIffOverrun ==
    PlanMade =>
        /\ \A i \in 2..Len(plan.slots) :
               /\ Has(plan.slots[i], "travelTime")
               /\ plan.slots[i].travelTime
                      = estimateTravelTime(estimateDistance(plan.slots[i - 1].activity,
                                                            plan.slots[i].activity))
        /\ TightWarnings = ExpectedTightWarnings(2)

\* a plan with a pair that overruns only because of the travel time, and a
\* pair that does not overrun
C28_Witness ==
    /\ PlanMade
    /\ \E i \in 2..Len(plan.slots) :
           /\ Overruns(i)
           /\ timeToMinutes(plan.slots[i - 1].time) + plan.slots[i - 1].activity.duration
                  <= timeToMinutes(plan.slots[i].time)
    /\ \E i \in 2..Len(plan.slots) : ~Overruns(i)
    /\ TightWarnings # <<>>

\* C29: no request calls query() on a DualRAGSystem instance whose
\* initialize() has not completed successfully: whenever a handler calls
\* rag.query, the instance's initialize() has resolved.
C29_QueryOnlyAfterInitialize ==
    \A q \in server.queried : q.initialize = "resolved"

\* C29, the part the code keeps: no handler calls rag.query while an
\* initialize() is still pending.
C29_NoQueryWhileInitializePending ==
    \A q \in server.queried : q.initialize # "pending"

\* C30: the budget filter is monotone in the budget tier: a price accepted
\* for 'low' is accepted for 'medium', and a price accepted for 'medium' is
\* accepted for 'high'.
C30_BudgetFilterMonotone ==
    (matchesBudgetResult # NoValue /\ matchesBudgetResult.value) =>
        /\ matchesBudgetArgs.budget = "low" =>
               matchesBudget(matchesBudgetArgs.activity, "medium")
        /\ matchesBudgetArgs.budget = "medium" =>
               matchesBudget(matchesBudgetArgs.activity, "high")

\* C30, the part the code keeps: a price accepted for 'medium' is accepted
\* for 'high', and a price accepted for 'low' is accepted for 'high'.
C30_HighAcceptsEverything ==
    (matchesBudgetResult # NoValue /\ matchesBudgetResult.value) =>
        matchesBudget(matchesBudgetArgs.activity, "high")

====
